---- MODULE Spec2Model ----
(***************************************************************************)
(* A model of BansheeEngine's pixel utilities (CmPixelUtil.cpp): the       *)
(* format catalog, the colour codec (packColor / unpackColor), the bulk    *)
(* converter (bulkPixelConversion) and the resamplers (scale).             *)
(*                                                                         *)
(* Numbers.  TLC's integers are 32-bit, so                                 *)
(*   - a UINT32 used as a bit pattern (masks, shifts) is the set of its    *)
(*     set bit positions, a subset of 0..31;                               *)
(*   - a UINT32/UINT64 used arithmetically (16/48 fixed point, the byte    *)
(*     kernel's accumulator) is a BigNat: its base-4096 digits, least      *)
(*     significant first, without leading zero digits;                     *)
(*   - a float is [k, m, x]: the value m * 2^x with m odd (or 0), rounded  *)
(*     to a 24-bit significand after every operation as IEEE single        *)
(*     precision does, or an infinity / NaN.                               *)
(***************************************************************************)
EXTENDS Integers, Sequences, FiniteSets, TLC

(***************************************************************************)
(* BigNat: natural numbers beyond 2^31                                     *)
(***************************************************************************)
RECURSIVE NatBitLen(_)
NatBitLen(n) == IF n = 0 THEN 0 ELSE 1 + NatBitLen(n \div 2)

Limb == 2^12

LimbBits == NatBitLen(Limb) - 1

RECURSIVE BTrim(_)
BTrim(s) ==
    IF s = <<>> THEN <<>>
    ELSE IF s[Len(s)] = 0 THEN BTrim(SubSeq(s, 1, Len(s) - 1))
    ELSE s

RECURSIVE BFromNat(_)
BFromNat(n) ==
    IF n = 0 THEN <<>> ELSE <<n % Limb>> \o BFromNat(n \div Limb)

RECURSIVE BToNat(_)
BToNat(s) ==
    IF s = <<>> THEN 0 ELSE s[1] + Limb * BToNat(Tail(s))

RECURSIVE BAddC(_, _, _)
BAddC(a, b, c) ==
    IF a = <<>> /\ b = <<>> THEN (IF c = 0 THEN <<>> ELSE <<c>>)
    ELSE LET x == IF a = <<>> THEN 0 ELSE a[1]
             y == IF b = <<>> THEN 0 ELSE b[1]
             t == x + y + c
         IN  <<t % Limb>> \o BAddC(IF a = <<>> THEN <<>> ELSE Tail(a),
                                   IF b = <<>> THEN <<>> ELSE Tail(b),
                                   t \div Limb)

BAdd(a, b) == BAddC(a, b, 0)

\* a - b for a >= b
RECURSIVE BSubC(_, _, _)
BSubC(a, b, c) ==
    IF a = <<>> THEN <<>>
    ELSE LET y == IF b = <<>> THEN 0 ELSE b[1]
             t == a[1] - y - c
         IN  <<IF t < 0 THEN t + Limb ELSE t>>
                 \o BSubC(Tail(a), IF b = <<>> THEN <<>> ELSE Tail(b),
                          IF t < 0 THEN 1 ELSE 0)

BSub(a, b) == BTrim(BSubC(a, b, 0))

\* a * m for 0 <= m < 2^18
RECURSIVE BMulC(_, _, _)
BMulC(a, m, c) ==
    IF a = <<>> THEN BFromNat(c)
    ELSE LET t == a[1] * m + c
         IN  <<t % Limb>> \o BMulC(Tail(a), m, t \div Limb)

BMulSmall(a, m) == BTrim(BMulC(a, m, 0))

BShlLimbs(a, k) ==
    IF a = <<>> THEN <<>> ELSE [i \in 1..k |-> 0] \o a

BShrLimbs(a, k) ==
    IF Len(a) <= k THEN <<>> ELSE SubSeq(a, k + 1, Len(a))

\* a * n for 0 <= n < 2^30
BMulNat(a, n) ==
    BAdd(BAdd(BMulSmall(a, n % Limb),
              BShlLimbs(BMulSmall(a, (n \div Limb) % Limb), 1)),
         BShlLimbs(BMulSmall(a, n \div (Limb * Limb)), 2))

\* quotient and remainder of a by d, 0 < d < 2^18
RECURSIVE BDivRem(_, _)
BDivRem(a, d) ==
    IF a = <<>> THEN [q |-> <<>>, r |-> 0]
    ELSE LET hi  == BDivRem(Tail(a), d)
             cur == hi.r * Limb + a[1]
         IN  [q |-> <<cur \div d>> \o hi.q, r |-> cur % d]

BDivSmall(a, d) == BTrim(BDivRem(a, d).q)

BShl(a, bits) ==
    BShlLimbs(BMulSmall(a, 2^(bits % LimbBits)), bits \div LimbBits)

BShr(a, bits) ==
    BDivSmall(BShrLimbs(a, bits \div LimbBits), 2^(bits % LimbBits))

\* a mod 2^bits
BLow(a, bits) ==
    LET k    == bits \div LimbBits
        rest == bits % LimbBits
        full == SubSeq(a, 1, IF Len(a) < k THEN Len(a) ELSE k)
        top  == IF Len(a) > k /\ rest > 0
                THEN <<a[k + 1] % (2^rest)>> ELSE <<>>
    IN  BTrim(full \o top)

BBitLen(a) ==
    IF a = <<>> THEN 0 ELSE LimbBits * (Len(a) - 1) + NatBitLen(a[Len(a)])

RECURSIVE BLess(_, _)
BLess(a, b) ==
    IF Len(a) # Len(b) THEN Len(a) < Len(b)
    ELSE IF a = <<>> THEN FALSE
    ELSE LET n == Len(a)
         IN  IF a[n] # b[n] THEN a[n] < b[n]
             ELSE BLess(BTrim(SubSeq(a, 1, n - 1)), BTrim(SubSeq(b, 1, n - 1)))

BLeq(a, b) == a = b \/ BLess(a, b)

BOne == <<1>>

(***************************************************************************)
(* IEEE single precision, non-negative values                              *)
(***************************************************************************)
RECURSIVE FCanon(_, _)
FCanon(m, x) ==
    IF m = 0 THEN [k |-> "num", m |-> 0, x |-> 0]
    ELSE IF m % 2 = 0 THEN FCanon(m \div 2, x + 1)
    ELSE [k |-> "num", m |-> m, x |-> x]

FZero == FCanon(0, 0)

FOne == FCanon(1, 0)

FInf == [k |-> "inf", m |-> 0, x |-> 0]

FNaN == [k |-> "nan", m |-> 0, x |-> 0]

FFromNat(n) == FCanon(n, 0)

\* big * 2^x rounded to a 24-bit significand, ties to even
FRound(big, x) ==
    LET len == BBitLen(big)
    IN  IF len <= 24 THEN FCanon(BToNat(big), x)
        ELSE LET s    == len - 24
                 m0   == BToNat(BShr(big, s))
                 rem  == BLow(big, s)
                 half == BShl(BOne, s - 1)
                 up   == BLess(half, rem) \/ (rem = half /\ m0 % 2 = 1)
             IN  FCanon(IF up THEN m0 + 1 ELSE m0, x + s)

FMul(a, b) ==
    IF a.k = "nan" \/ b.k = "nan" THEN FNaN
    ELSE IF a.k = "inf" \/ b.k = "inf"
         THEN (IF a = FZero \/ b = FZero THEN FNaN ELSE FInf)
    ELSE FRound(BMulNat(BFromNat(a.m), b.m), a.x + b.x)

\* the two significands over the smaller exponent
FMin(a, b) == IF a.x < b.x THEN a.x ELSE b.x

FBig(a, x0) == BShl(BFromNat(a.m), a.x - x0)

FAdd(a, b) ==
    IF a.k = "nan" \/ b.k = "nan" THEN FNaN
    ELSE IF a.k = "inf" \/ b.k = "inf" THEN FInf
    ELSE IF a.m = 0 THEN b
    ELSE IF b.m = 0 THEN a
    ELSE LET x0 == FMin(a, b)
         IN  FRound(BAdd(FBig(a, x0), FBig(b, x0)), x0)

FLess(a, b) ==
    /\ a.k = "num" /\ b.k = "num"
    /\ IF a.m = 0 THEN b.m # 0
       ELSE IF b.m = 0 THEN FALSE
       ELSE LET x0 == FMin(a, b) IN BLess(FBig(a, x0), FBig(b, x0))

\* a - b for num a >= b
FSub(a, b) ==
    IF b.m = 0 THEN a
    ELSE LET x0 == FMin(a, b)
         IN  FRound(BSub(FBig(a, x0), FBig(b, x0)), x0)

\* (float)n / (float)d for naturals below 2^18
FDivNat(n, d) ==
    IF d = 0 THEN (IF n = 0 THEN FNaN ELSE FInf)
    ELSE LET qr == BDivRem(BShl(BFromNat(n), 48), d)
             q2 == BAdd(BMulSmall(BTrim(qr.q), 2),
                        IF qr.r = 0 THEN <<>> ELSE BOne)
         IN  FRound(q2, 0 - 49)

\* (unsigned int)(a * 2^bits) for a num below 2^(30 - bits)
FScaleTrunc(a, bits) ==
    LET e == a.x + bits
    IN  IF e >= 0 THEN a.m * (2^e)
        ELSE IF 0 - e > 30 THEN 0
        ELSE a.m \div (2^(0 - e))

(***************************************************************************)
(* UINT32 bit patterns: sets of bit positions                              *)
(***************************************************************************)
BitPos == 0..31

\* the bits of a natural below 2^31
Bits(n) == {i \in 0..30 : (n \div (2^i)) % 2 = 1}

\* the value of a pattern whose bit 31 is clear
BitsVal(w) ==
    LET f[i \in 0..30] ==
            (IF i \in w THEN 2^i ELSE 0) + (IF i = 0 THEN 0 ELSE f[i - 1])
    IN  f[30]

BitShl(w, s) == {i + s : i \in w} \cap BitPos

BitShr(w, s) == {i - s : i \in {j \in w : j >= s}}

BitAnd(v, w) == v \cap w

BitOr(v, w) == v \cup w

\* the literal 0x b3 b2 b1 b0, one byte per argument
Hex32(b3, b2, b1, b0) ==
    BitShl(Bits(b3), 24) \cup BitShl(Bits(b2), 16)
        \cup BitShl(Bits(b1), 8) \cup Bits(b0)

(***************************************************************************)
(* The format catalog                                                      *)
(***************************************************************************)
PF_UNKNOWN == 0
PF_R8 == 1
PF_R8G8 == 2
PF_R8G8B8 == 3
PF_B8G8R8 == 4
PF_A8R8G8B8 == 5
PF_A8B8G8R8 == 6
PF_B8G8R8A8 == 7
PF_R8G8B8A8 == 8
PF_X8R8G8B8 == 9
PF_X8B8G8R8 == 10
PF_R8G8B8X8 == 11
PF_B8G8R8X8 == 12
PF_DXT1 == 13
PF_DXT2 == 14
PF_DXT3 == 15
PF_DXT4 == 16
PF_DXT5 == 17
PF_FLOAT16_R == 18
PF_FLOAT16_RG == 19
PF_FLOAT16_RGB == 20
PF_FLOAT16_RGBA == 21
PF_FLOAT32_R == 22
PF_FLOAT32_RG == 23
PF_FLOAT32_RGB == 24
PF_FLOAT32_RGBA == 25
PF_D32_S8X24 == 26
PF_D24_S8 == 27
PF_D32 == 28
PF_D16 == 29
PF_COUNT == 30

\* the initializer of the static array _pixelFormats[PF_COUNT]
_pixelFormatsInitializer == <<
    [name |-> "PF_UNKNOWN", elemBytes |-> 0,
     flags |-> {},
     componentType |-> "PCT_BYTE", componentCount |-> 0,
     rbits |-> 0, gbits |-> 0, bbits |-> 0, abits |-> 0,
     rmask |-> Hex32(0, 0, 0, 0), gmask |-> Hex32(0, 0, 0, 0),
     bmask |-> Hex32(0, 0, 0, 0), amask |-> Hex32(0, 0, 0, 0),
     rshift |-> 0, gshift |-> 0, bshift |-> 0, ashift |-> 0],
    [name |-> "PF_R8", elemBytes |-> 1,
     flags |-> {},
     componentType |-> "PCT_BYTE", componentCount |-> 1,
     rbits |-> 8, gbits |-> 0, bbits |-> 0, abits |-> 0,
     rmask |-> Hex32(0, 0, 0, 255), gmask |-> Hex32(0, 0, 0, 0),
     bmask |-> Hex32(0, 0, 0, 0), amask |-> Hex32(0, 0, 0, 0),
     rshift |-> 0, gshift |-> 0, bshift |-> 0, ashift |-> 0],
    [name |-> "PF_R8G8", elemBytes |-> 2,
     flags |-> {},
     componentType |-> "PCT_BYTE", componentCount |-> 2,
     rbits |-> 8, gbits |-> 8, bbits |-> 0, abits |-> 0,
     rmask |-> Hex32(0, 0, 0, 255), gmask |-> Hex32(0, 0, 255, 0),
     bmask |-> Hex32(0, 0, 0, 0), amask |-> Hex32(0, 0, 0, 0),
     rshift |-> 0, gshift |-> 8, bshift |-> 0, ashift |-> 0],
    [name |-> "PF_R8G8B8", elemBytes |-> 3,
     flags |-> {"PFF_NATIVEENDIAN"},
     componentType |-> "PCT_BYTE", componentCount |-> 3,
     rbits |-> 8, gbits |-> 8, bbits |-> 8, abits |-> 0,
     rmask |-> Hex32(0, 0, 0, 255), gmask |-> Hex32(0, 0, 255, 0),
     bmask |-> Hex32(0, 255, 0, 0), amask |-> Hex32(0, 0, 0, 0),
     rshift |-> 0, gshift |-> 8, bshift |-> 16, ashift |-> 0],
    [name |-> "PF_B8G8R8", elemBytes |-> 3,
     flags |-> {"PFF_NATIVEENDIAN"},
     componentType |-> "PCT_BYTE", componentCount |-> 3,
     rbits |-> 8, gbits |-> 8, bbits |-> 8, abits |-> 0,
     rmask |-> Hex32(0, 255, 0, 0), gmask |-> Hex32(0, 0, 255, 0),
     bmask |-> Hex32(0, 0, 0, 255), amask |-> Hex32(0, 0, 0, 0),
     rshift |-> 16, gshift |-> 8, bshift |-> 0, ashift |-> 0],
    [name |-> "PF_A8R8G8B8", elemBytes |-> 4,
     flags |-> {"PFF_HASALPHA", "PFF_NATIVEENDIAN"},
     componentType |-> "PCT_BYTE", componentCount |-> 4,
     rbits |-> 8, gbits |-> 8, bbits |-> 8, abits |-> 8,
     rmask |-> Hex32(0, 0, 255, 0), gmask |-> Hex32(0, 255, 0, 0),
     bmask |-> Hex32(255, 0, 0, 0), amask |-> Hex32(0, 0, 0, 255),
     rshift |-> 8, gshift |-> 16, bshift |-> 24, ashift |-> 0],
    [name |-> "PF_A8B8G8R8", elemBytes |-> 4,
     flags |-> {"PFF_HASALPHA", "PFF_NATIVEENDIAN"},
     componentType |-> "PCT_BYTE", componentCount |-> 4,
     rbits |-> 8, gbits |-> 8, bbits |-> 8, abits |-> 8,
     rmask |-> Hex32(255, 0, 0, 0), gmask |-> Hex32(0, 255, 0, 0),
     bmask |-> Hex32(0, 0, 255, 0), amask |-> Hex32(0, 0, 0, 255),
     rshift |-> 24, gshift |-> 16, bshift |-> 8, ashift |-> 0],
    [name |-> "PF_B8G8R8A8", elemBytes |-> 4,
     flags |-> {"PFF_HASALPHA", "PFF_NATIVEENDIAN"},
     componentType |-> "PCT_BYTE", componentCount |-> 4,
     rbits |-> 8, gbits |-> 8, bbits |-> 8, abits |-> 8,
     rmask |-> Hex32(0, 255, 0, 0), gmask |-> Hex32(0, 0, 255, 0),
     bmask |-> Hex32(0, 0, 0, 255), amask |-> Hex32(255, 0, 0, 0),
     rshift |-> 16, gshift |-> 8, bshift |-> 0, ashift |-> 24],
    [name |-> "PF_R8G8B8A8", elemBytes |-> 4,
     flags |-> {"PFF_HASALPHA", "PFF_NATIVEENDIAN"},
     componentType |-> "PCT_BYTE", componentCount |-> 4,
     rbits |-> 8, gbits |-> 8, bbits |-> 8, abits |-> 8,
     rmask |-> Hex32(0, 0, 0, 255), gmask |-> Hex32(0, 0, 255, 0),
     bmask |-> Hex32(0, 255, 0, 0), amask |-> Hex32(255, 0, 0, 0),
     rshift |-> 0, gshift |-> 8, bshift |-> 16, ashift |-> 24],
    [name |-> "PF_X8R8G8B8", elemBytes |-> 4,
     flags |-> {"PFF_NATIVEENDIAN"},
     componentType |-> "PCT_BYTE", componentCount |-> 3,
     rbits |-> 8, gbits |-> 8, bbits |-> 8, abits |-> 0,
     rmask |-> Hex32(0, 0, 255, 0), gmask |-> Hex32(0, 255, 0, 0),
     bmask |-> Hex32(255, 0, 0, 0), amask |-> Hex32(0, 0, 0, 255),
     rshift |-> 8, gshift |-> 16, bshift |-> 24, ashift |-> 0],
    [name |-> "PF_X8B8G8R8", elemBytes |-> 4,
     flags |-> {"PFF_NATIVEENDIAN"},
     componentType |-> "PCT_BYTE", componentCount |-> 3,
     rbits |-> 8, gbits |-> 8, bbits |-> 8, abits |-> 0,
     rmask |-> Hex32(255, 0, 0, 0), gmask |-> Hex32(0, 255, 0, 0),
     bmask |-> Hex32(0, 0, 255, 0), amask |-> Hex32(0, 0, 0, 255),
     rshift |-> 24, gshift |-> 16, bshift |-> 8, ashift |-> 0],
    [name |-> "PF_R8G8B8X8", elemBytes |-> 4,
     flags |-> {"PFF_HASALPHA", "PFF_NATIVEENDIAN"},
     componentType |-> "PCT_BYTE", componentCount |-> 3,
     rbits |-> 8, gbits |-> 8, bbits |-> 8, abits |-> 0,
     rmask |-> Hex32(0, 0, 0, 255), gmask |-> Hex32(0, 0, 255, 0),
     bmask |-> Hex32(0, 255, 0, 0), amask |-> Hex32(255, 0, 0, 0),
     rshift |-> 0, gshift |-> 8, bshift |-> 16, ashift |-> 0],
    [name |-> "PF_B8G8R8X8", elemBytes |-> 4,
     flags |-> {"PFF_HASALPHA", "PFF_NATIVEENDIAN"},
     componentType |-> "PCT_BYTE", componentCount |-> 3,
     rbits |-> 8, gbits |-> 8, bbits |-> 8, abits |-> 0,
     rmask |-> Hex32(0, 255, 0, 0), gmask |-> Hex32(0, 0, 255, 0),
     bmask |-> Hex32(0, 0, 0, 255), amask |-> Hex32(255, 0, 0, 0),
     rshift |-> 16, gshift |-> 8, bshift |-> 0, ashift |-> 0],
    [name |-> "PF_DXT1", elemBytes |-> 0,
     flags |-> {"PFF_COMPRESSED", "PFF_HASALPHA"},
     componentType |-> "PCT_BYTE", componentCount |-> 3,
     rbits |-> 0, gbits |-> 0, bbits |-> 0, abits |-> 0,
     rmask |-> Hex32(0, 0, 0, 0), gmask |-> Hex32(0, 0, 0, 0),
     bmask |-> Hex32(0, 0, 0, 0), amask |-> Hex32(0, 0, 0, 0),
     rshift |-> 0, gshift |-> 0, bshift |-> 0, ashift |-> 0],
    [name |-> "PF_DXT2", elemBytes |-> 0,
     flags |-> {"PFF_COMPRESSED", "PFF_HASALPHA"},
     componentType |-> "PCT_BYTE", componentCount |-> 4,
     rbits |-> 0, gbits |-> 0, bbits |-> 0, abits |-> 0,
     rmask |-> Hex32(0, 0, 0, 0), gmask |-> Hex32(0, 0, 0, 0),
     bmask |-> Hex32(0, 0, 0, 0), amask |-> Hex32(0, 0, 0, 0),
     rshift |-> 0, gshift |-> 0, bshift |-> 0, ashift |-> 0],
    [name |-> "PF_DXT3", elemBytes |-> 0,
     flags |-> {"PFF_COMPRESSED", "PFF_HASALPHA"},
     componentType |-> "PCT_BYTE", componentCount |-> 4,
     rbits |-> 0, gbits |-> 0, bbits |-> 0, abits |-> 0,
     rmask |-> Hex32(0, 0, 0, 0), gmask |-> Hex32(0, 0, 0, 0),
     bmask |-> Hex32(0, 0, 0, 0), amask |-> Hex32(0, 0, 0, 0),
     rshift |-> 0, gshift |-> 0, bshift |-> 0, ashift |-> 0],
    [name |-> "PF_DXT4", elemBytes |-> 0,
     flags |-> {"PFF_COMPRESSED", "PFF_HASALPHA"},
     componentType |-> "PCT_BYTE", componentCount |-> 4,
     rbits |-> 0, gbits |-> 0, bbits |-> 0, abits |-> 0,
     rmask |-> Hex32(0, 0, 0, 0), gmask |-> Hex32(0, 0, 0, 0),
     bmask |-> Hex32(0, 0, 0, 0), amask |-> Hex32(0, 0, 0, 0),
     rshift |-> 0, gshift |-> 0, bshift |-> 0, ashift |-> 0],
    [name |-> "PF_DXT5", elemBytes |-> 0,
     flags |-> {"PFF_COMPRESSED", "PFF_HASALPHA"},
     componentType |-> "PCT_BYTE", componentCount |-> 4,
     rbits |-> 0, gbits |-> 0, bbits |-> 0, abits |-> 0,
     rmask |-> Hex32(0, 0, 0, 0), gmask |-> Hex32(0, 0, 0, 0),
     bmask |-> Hex32(0, 0, 0, 0), amask |-> Hex32(0, 0, 0, 0),
     rshift |-> 0, gshift |-> 0, bshift |-> 0, ashift |-> 0],
    [name |-> "PF_FLOAT16_R", elemBytes |-> 2,
     flags |-> {"PFF_FLOAT"},
     componentType |-> "PCT_FLOAT16", componentCount |-> 1,
     rbits |-> 16, gbits |-> 0, bbits |-> 0, abits |-> 0,
     rmask |-> Hex32(0, 0, 0, 0), gmask |-> Hex32(0, 0, 0, 0),
     bmask |-> Hex32(0, 0, 0, 0), amask |-> Hex32(0, 0, 0, 0),
     rshift |-> 0, gshift |-> 0, bshift |-> 0, ashift |-> 0],
    [name |-> "PF_FLOAT16_RG", elemBytes |-> 4,
     flags |-> {"PFF_FLOAT"},
     componentType |-> "PCT_FLOAT16", componentCount |-> 2,
     rbits |-> 16, gbits |-> 16, bbits |-> 0, abits |-> 0,
     rmask |-> Hex32(0, 0, 0, 0), gmask |-> Hex32(0, 0, 0, 0),
     bmask |-> Hex32(0, 0, 0, 0), amask |-> Hex32(0, 0, 0, 0),
     rshift |-> 0, gshift |-> 0, bshift |-> 0, ashift |-> 0],
    [name |-> "PF_FLOAT16_RGB", elemBytes |-> 6,
     flags |-> {"PFF_FLOAT"},
     componentType |-> "PCT_FLOAT16", componentCount |-> 3,
     rbits |-> 16, gbits |-> 16, bbits |-> 16, abits |-> 0,
     rmask |-> Hex32(0, 0, 0, 0), gmask |-> Hex32(0, 0, 0, 0),
     bmask |-> Hex32(0, 0, 0, 0), amask |-> Hex32(0, 0, 0, 0),
     rshift |-> 0, gshift |-> 0, bshift |-> 0, ashift |-> 0],
    [name |-> "PF_FLOAT16_RGBA", elemBytes |-> 8,
     flags |-> {"PFF_FLOAT", "PFF_HASALPHA"},
     componentType |-> "PCT_FLOAT16", componentCount |-> 4,
     rbits |-> 16, gbits |-> 16, bbits |-> 16, abits |-> 16,
     rmask |-> Hex32(0, 0, 0, 0), gmask |-> Hex32(0, 0, 0, 0),
     bmask |-> Hex32(0, 0, 0, 0), amask |-> Hex32(0, 0, 0, 0),
     rshift |-> 0, gshift |-> 0, bshift |-> 0, ashift |-> 0],
    [name |-> "PF_FLOAT32_R", elemBytes |-> 4,
     flags |-> {"PFF_FLOAT"},
     componentType |-> "PCT_FLOAT32", componentCount |-> 1,
     rbits |-> 32, gbits |-> 0, bbits |-> 0, abits |-> 0,
     rmask |-> Hex32(0, 0, 0, 0), gmask |-> Hex32(0, 0, 0, 0),
     bmask |-> Hex32(0, 0, 0, 0), amask |-> Hex32(0, 0, 0, 0),
     rshift |-> 0, gshift |-> 0, bshift |-> 0, ashift |-> 0],
    [name |-> "PF_FLOAT32_RG", elemBytes |-> 8,
     flags |-> {"PFF_FLOAT"},
     componentType |-> "PCT_FLOAT32", componentCount |-> 2,
     rbits |-> 32, gbits |-> 32, bbits |-> 0, abits |-> 0,
     rmask |-> Hex32(0, 0, 0, 0), gmask |-> Hex32(0, 0, 0, 0),
     bmask |-> Hex32(0, 0, 0, 0), amask |-> Hex32(0, 0, 0, 0),
     rshift |-> 0, gshift |-> 0, bshift |-> 0, ashift |-> 0],
    [name |-> "PF_FLOAT32_RGB", elemBytes |-> 12,
     flags |-> {"PFF_FLOAT"},
     componentType |-> "PCT_FLOAT32", componentCount |-> 3,
     rbits |-> 32, gbits |-> 32, bbits |-> 32, abits |-> 0,
     rmask |-> Hex32(0, 0, 0, 0), gmask |-> Hex32(0, 0, 0, 0),
     bmask |-> Hex32(0, 0, 0, 0), amask |-> Hex32(0, 0, 0, 0),
     rshift |-> 0, gshift |-> 0, bshift |-> 0, ashift |-> 0],
    [name |-> "PF_FLOAT32_RGBA", elemBytes |-> 16,
     flags |-> {"PFF_FLOAT", "PFF_HASALPHA"},
     componentType |-> "PCT_FLOAT32", componentCount |-> 4,
     rbits |-> 32, gbits |-> 32, bbits |-> 32, abits |-> 32,
     rmask |-> Hex32(0, 0, 0, 0), gmask |-> Hex32(0, 0, 0, 0),
     bmask |-> Hex32(0, 0, 0, 0), amask |-> Hex32(0, 0, 0, 0),
     rshift |-> 0, gshift |-> 0, bshift |-> 0, ashift |-> 0],
    [name |-> "PF_D32_S8X24", elemBytes |-> 4,
     flags |-> {"PFF_DEPTH", "PFF_FLOAT"},
     componentType |-> "PCT_FLOAT32", componentCount |-> 1,
     rbits |-> 0, gbits |-> 0, bbits |-> 0, abits |-> 0,
     rmask |-> Hex32(0, 0, 0, 0), gmask |-> Hex32(0, 0, 0, 0),
     bmask |-> Hex32(0, 0, 0, 0), amask |-> Hex32(0, 0, 0, 0),
     rshift |-> 0, gshift |-> 0, bshift |-> 0, ashift |-> 0],
    [name |-> "PF_D24_S8", elemBytes |-> 8,
     flags |-> {"PFF_DEPTH", "PFF_FLOAT"},
     componentType |-> "PCT_FLOAT32", componentCount |-> 2,
     rbits |-> 0, gbits |-> 0, bbits |-> 0, abits |-> 0,
     rmask |-> Hex32(0, 0, 0, 0), gmask |-> Hex32(0, 0, 0, 0),
     bmask |-> Hex32(0, 0, 0, 0), amask |-> Hex32(0, 0, 0, 0),
     rshift |-> 0, gshift |-> 0, bshift |-> 0, ashift |-> 0],
    [name |-> "PF_D32", elemBytes |-> 4,
     flags |-> {"PFF_DEPTH", "PFF_FLOAT"},
     componentType |-> "PCT_FLOAT32", componentCount |-> 1,
     rbits |-> 0, gbits |-> 0, bbits |-> 0, abits |-> 0,
     rmask |-> Hex32(0, 0, 0, 0), gmask |-> Hex32(0, 0, 0, 0),
     bmask |-> Hex32(0, 0, 0, 0), amask |-> Hex32(0, 0, 0, 0),
     rshift |-> 0, gshift |-> 0, bshift |-> 0, ashift |-> 0],
    [name |-> "PF_D16", elemBytes |-> 2,
     flags |-> {"PFF_DEPTH", "PFF_FLOAT"},
     componentType |-> "PCT_FLOAT16", componentCount |-> 1,
     rbits |-> 0, gbits |-> 0, bbits |-> 0, abits |-> 0,
     rmask |-> Hex32(0, 0, 0, 0), gmask |-> Hex32(0, 0, 0, 0),
     bmask |-> Hex32(0, 0, 0, 0), amask |-> Hex32(0, 0, 0, 0),
     rshift |-> 0, gshift |-> 0, bshift |-> 0, ashift |-> 0]
    >>

\* the static array of format descriptions, as it sits in memory
VARIABLE _pixelFormats

PixelFormat == 0..(PF_COUNT - 1)

getDescriptionFor(fmt) == _pixelFormats[fmt + 1]

getNumElemBytes(format) == getDescriptionFor(format).elemBytes

getNumElemBits(format) == getDescriptionFor(format).elemBytes * 8

getFlags(format) == getDescriptionFor(format).flags

hasAlpha(format) == "PFF_HASALPHA" \in getFlags(format)

isFloatingPoint(format) == "PFF_FLOAT" \in getFlags(format)

isCompressed(format) == "PFF_COMPRESSED" \in getFlags(format)

isDepth(format) == "PFF_DEPTH" \in getFlags(format)

isNativeEndian(format) == "PFF_NATIVEENDIAN" \in getFlags(format)

\* isAccessible without the test of PFF_COMPRESSED
isAccessible_IgnoreCompressed(srcformat) ==
    IF srcformat = PF_UNKNOWN THEN FALSE
    ELSE "PFF_DEPTH" \notin getFlags(srcformat)

\* isAccessible without the test of PFF_DEPTH
isAccessible_IgnoreDepth(srcformat) ==
    IF srcformat = PF_UNKNOWN THEN FALSE
    ELSE "PFF_COMPRESSED" \notin getFlags(srcformat)

isAccessible(srcformat) ==
    IF srcformat = PF_UNKNOWN THEN FALSE
    ELSE LET flags == getFlags(srcformat)
         IN  ~(("PFF_COMPRESSED" \in flags) \/ ("PFF_DEPTH" \in flags))

getNumElements(format) == getDescriptionFor(format).componentCount

getElementType(format) == getDescriptionFor(format).componentType

\* getMemorySize sizing compressed images in whole blocks only
getMemorySize_RoundDown(width, height, depth, format) ==
    IF isCompressed(format)
    THEN [ok |-> TRUE,
          val |-> (width \div 4) * (height \div 4) * depth
                    * (IF format = PF_DXT1 THEN 8 ELSE 16)]
    ELSE [ok |-> TRUE, val |-> width * height * depth * getNumElemBytes(format)]

\* the value returned, or the exception raised
getMemorySize(width, height, depth, format) ==
    IF isCompressed(format)
    THEN IF format = PF_DXT1
         THEN [ok |-> TRUE,
               val |-> ((width + 3) \div 4) * ((height + 3) \div 4) * 8 * depth]
         ELSE IF format \in {PF_DXT2, PF_DXT3, PF_DXT4, PF_DXT5}
         THEN [ok |-> TRUE,
               val |-> ((width + 3) \div 4) * ((height + 3) \div 4) * 16 * depth]
         ELSE [ok |-> FALSE, val |-> 0]
    ELSE [ok |-> TRUE, val |-> width * height * depth * getNumElemBytes(format)]

\* isValidExtent without the depth test
isValidExtent_AnyDepth(width, height, depth, format) ==
    IF isCompressed(format)
    THEN /\ BitAnd(Bits(width), Bits(3)) = {}
         /\ BitAnd(Bits(height), Bits(3)) = {}
    ELSE TRUE

isValidExtent(width, height, depth, format) ==
    IF isCompressed(format)
    THEN IF format \in {PF_DXT1, PF_DXT2, PF_DXT3, PF_DXT4, PF_DXT5}
         THEN /\ BitAnd(Bits(width), Bits(3)) = {}
              /\ BitAnd(Bits(height), Bits(3)) = {}
              /\ depth = 1
         ELSE TRUE
    ELSE TRUE

\* one pass through the body of getMaxMipmaps' do-while loop
MipHalve(n) == IF n > 1 THEN n \div 2 ELSE n

MipLoopExit(width, height, depth) == width = 1 /\ height = 1 /\ depth = 1

(***************************************************************************)
(* Bitwise: the fixed-point and half-float helpers of CmBitwise.h.  An     *)
(* argument u stands for what an undefined operation yields: the caller    *)
(* draws it.                                                               *)
(***************************************************************************)
\* value (a bit pattern) from n bits to p bits
fixedToFixed(value, n, p, u) ==
    IF n > p THEN BitShr(value, n - p)
    ELSE IF n < p
         THEN IF value = {} THEN {}
              ELSE IF value = Bits(2^n - 1) THEN Bits(2^p - 1)
              ELSE IF n = 0 THEN Bits(u)
              ELSE Bits((BitsVal(value) * (2^p)) \div (2^n - 1))
    ELSE value

\* whether fixedToFixed divides by zero
fixedToFixedUndefined(value, n, p) == n < p /\ n = 0 /\ value # {}

floatToFixed(value, bits, u) ==
    IF value.k = "nan" THEN u
    ELSE IF value.k = "inf" THEN 2^bits - 1
    ELSE IF value.m = 0 THEN 0
    ELSE IF ~FLess(value, FOne) THEN 2^bits - 1
    ELSE FScaleTrunc(value, bits)

\* whether floatToFixed converts a NaN to an integer
floatToFixedUndefined(value) == value.k = "nan"

fixedToFloat(value, bits) ==
    IF 2^bits - 1 = 0 THEN (IF value = {} THEN FNaN ELSE FInf)
    ELSE FDivNat(BitsVal(value), 2^bits - 1)

\* the n low bytes of value, least significant first
intWrite(n, value) ==
    [i \in 1..n |-> BitsVal(BitShr(value, 8 * (i - 1)) \cap (0..7))]

intRead(src) ==
    UNION {BitShl(Bits(src[i]), 8 * (i - 1)) : i \in 1..Len(src)}

\* a float as the half that floatToHalf stores: the significand cut to 11
\* bits (to a multiple of 2^-24 below 2^-14), infinity from 65536 on
floatToHalf(value) ==
    IF value.k # "num" \/ value.m = 0 THEN value
    ELSE LET len == NatBitLen(value.m)
             e   == value.x + len - 1
         IN  IF e > 15 THEN FInf
             ELSE IF e < 0 - 14
                  THEN (IF 0 - (value.x + 24) > 30 THEN FZero
                        ELSE FCanon(value.m \div (2^(0 - (value.x + 24))),
                                    0 - 24))
             ELSE IF len > 11
                  THEN FCanon(value.m \div (2^(len - 11)), value.x + len - 11)
             ELSE value

halfToFloat(half) == half

(***************************************************************************)
(* The colour codec.  A pixel is the sequence of its memory cells: bytes   *)
(* for a PCT_BYTE format, halves for PCT_FLOAT16, floats for PCT_FLOAT32.  *)
(***************************************************************************)
CellBytes(format) ==
    LET type == getElementType(format)
    IN  IF type = "PCT_FLOAT32" THEN 4 ELSE IF type = "PCT_FLOAT16" THEN 2 ELSE 1

CellsPerPixel(format) == getNumElemBytes(format) \div CellBytes(format)

NotImplemented == [ok |-> FALSE, px |-> <<>>]

Packed(cells) == [ok |-> TRUE, px |-> cells]

\* one channel's term of the packed value: (floatToFixed(c, bits) << shift) & mask
packChannelFloat(c, bits, shift, mask, u) ==
    BitAnd(BitShl(Bits(floatToFixed(c, bits, u)), shift), mask)

\* packColor(float, ...) writing the red channel as a byte where the source
\* raises NotImplementedException
packColorFloat_DefaultByte(r, g, b, a, format, u) ==
    IF format # PF_UNKNOWN THEN Packed(<<floatToFixed(r, 8, u) % 256>>)
    ELSE NotImplemented

packColorFloat(r, g, b, a, format, u) ==
    LET d == getDescriptionFor(format)
    IN  IF "PFF_NATIVEENDIAN" \in d.flags
        THEN LET value ==
                   BitOr(BitOr(packChannelFloat(r, d.rbits, d.rshift, d.rmask, u),
                               packChannelFloat(g, d.gbits, d.gshift, d.gmask, u)),
                         BitOr(packChannelFloat(b, d.bbits, d.bshift, d.bmask, u),
                               packChannelFloat(a, d.abits, d.ashift, d.amask, u)))
             IN  Packed(intWrite(d.elemBytes, value))
        ELSE IF format = PF_FLOAT32_R THEN Packed(<<r>>)
        ELSE IF format = PF_FLOAT32_RG THEN Packed(<<r, g>>)
        ELSE IF format = PF_FLOAT32_RGB THEN Packed(<<r, g, b>>)
        ELSE IF format = PF_FLOAT32_RGBA THEN Packed(<<r, g, b, a>>)
        ELSE IF format = PF_FLOAT16_R THEN Packed(<<floatToHalf(r)>>)
        ELSE IF format = PF_FLOAT16_RG
             THEN Packed(<<floatToHalf(r), floatToHalf(g)>>)
        ELSE IF format = PF_FLOAT16_RGB
             THEN Packed(<<floatToHalf(r), floatToHalf(g), floatToHalf(b)>>)
        ELSE IF format = PF_FLOAT16_RGBA
             THEN Packed(<<floatToHalf(r), floatToHalf(g),
                           floatToHalf(b), floatToHalf(a)>>)
        ELSE IF format = PF_R8G8
             THEN Packed(<<floatToFixed(r, 8, u) % 256, floatToFixed(g, 8, u) % 256>>)
        ELSE IF format = PF_R8 THEN Packed(<<floatToFixed(r, 8, u) % 256>>)
        ELSE NotImplemented

\* whether packColorFloat meets an undefined conversion
packColorFloatUndefined(r, g, b, a, format) ==
    LET d == getDescriptionFor(format)
    IN  IF "PFF_NATIVEENDIAN" \in d.flags
        THEN \E c \in {r, g, b, a} : floatToFixedUndefined(c)
        ELSE \/ format = PF_R8G8 /\ \E c \in {r, g} : floatToFixedUndefined(c)
             \/ format = PF_R8 /\ floatToFixedUndefined(r)

\* a channel's term without the width conversion and the mask
packChannelByte_Unmasked(c, bits, shift, mask, u) == BitShl(Bits(c), shift)

packChannelByte_ShiftRight(c, bits, shift, mask, u) ==
    BitAnd(BitShr(fixedToFixed(Bits(c), 8, bits, u), shift), mask)

\* one channel's term of the packed value: (fixedToFixed(c, 8, bits) << shift) & mask
packChannelByte(c, bits, shift, mask, u) ==
    BitAnd(BitShl(fixedToFixed(Bits(c), 8, bits, u), shift), mask)

packColorByte(r, g, b, a, format, u) ==
    LET d == getDescriptionFor(format)
    IN  IF "PFF_NATIVEENDIAN" \in d.flags
        THEN LET value ==
                   BitOr(BitOr(packChannelByte(r, d.rbits, d.rshift, d.rmask, u),
                               packChannelByte(g, d.gbits, d.gshift, d.gmask, u)),
                         BitOr(packChannelByte(b, d.bbits, d.bshift, d.bmask, u),
                               packChannelByte(a, d.abits, d.ashift, d.amask, u)))
             IN  Packed(intWrite(d.elemBytes, value))
        ELSE packColorFloat(FDivNat(r, 255), FDivNat(g, 255),
                            FDivNat(b, 255), FDivNat(a, 255), format, u)

NoColor == [ok |-> FALSE, r |-> FZero, g |-> FZero, b |-> FZero, a |-> FZero]

Unpacked(r, g, b, a) == [ok |-> TRUE, r |-> r, g |-> g, b |-> b, a |-> a]

unpackChannelFloat_Unshifted(value, bits, shift, mask) ==
    fixedToFloat(BitAnd(value, mask), bits)

\* one channel of the packed value: fixedToFloat((value & mask) >> shift, bits)
unpackChannelFloat(value, bits, shift, mask) ==
    fixedToFloat(BitShr(BitAnd(value, mask), shift), bits)

unpackColorFloat(format, src) ==
    LET d == getDescriptionFor(format)
    IN  IF "PFF_NATIVEENDIAN" \in d.flags
        THEN LET value == intRead(src)
             IN  Unpacked(unpackChannelFloat(value, d.rbits, d.rshift, d.rmask),
                          unpackChannelFloat(value, d.gbits, d.gshift, d.gmask),
                          unpackChannelFloat(value, d.bbits, d.bshift, d.bmask),
                          IF "PFF_HASALPHA" \in d.flags
                          THEN unpackChannelFloat(value, d.abits, d.ashift, d.amask)
                          ELSE FOne)
        ELSE IF format = PF_FLOAT32_R THEN Unpacked(src[1], src[1], src[1], FOne)
        ELSE IF format = PF_FLOAT32_RG THEN Unpacked(src[1], src[2], src[2], FOne)
        ELSE IF format = PF_FLOAT32_RGB THEN Unpacked(src[1], src[2], src[3], FOne)
        ELSE IF format = PF_FLOAT32_RGBA
             THEN Unpacked(src[1], src[2], src[3], src[4])
        ELSE IF format = PF_FLOAT16_R
             THEN Unpacked(halfToFloat(src[1]), halfToFloat(src[1]),
                           halfToFloat(src[1]), FOne)
        ELSE IF format = PF_FLOAT16_RG
             THEN Unpacked(halfToFloat(src[1]), halfToFloat(src[2]),
                           halfToFloat(src[2]), FOne)
        ELSE IF format = PF_FLOAT16_RGB
             THEN Unpacked(halfToFloat(src[1]), halfToFloat(src[2]),
                           halfToFloat(src[3]), FOne)
        ELSE IF format = PF_FLOAT16_RGBA
             THEN Unpacked(halfToFloat(src[1]), halfToFloat(src[2]),
                           halfToFloat(src[3]), halfToFloat(src[4]))
        ELSE IF format = PF_R8G8
             THEN Unpacked(fixedToFloat(Bits(src[1]), 8),
                           fixedToFloat(Bits(src[2]), 8), FZero, FOne)
        ELSE IF format = PF_R8
             THEN Unpacked(fixedToFloat(Bits(src[1]), 8), FZero, FZero, FOne)
        ELSE NoColor

NoBytes == [ok |-> FALSE, r |-> 0, g |-> 0, b |-> 0, a |-> 0]

UnpackedBytes(r, g, b, a) == [ok |-> TRUE, r |-> r, g |-> g, b |-> b, a |-> a]

\* (UINT8) of a bit pattern
LowByte(value) == BitsVal(value \cap (0..7))

\* one channel of the packed value:
\* (UINT8)fixedToFixed((value & mask) >> shift, bits, 8)
unpackChannelByte(value, bits, shift, mask, u) ==
    LowByte(fixedToFixed(BitShr(BitAnd(value, mask), shift), bits, 8, u))

unpackColorByte(format, src, u) ==
    LET d == getDescriptionFor(format)
    IN  IF "PFF_NATIVEENDIAN" \in d.flags
        THEN LET value == intRead(src)
             IN  UnpackedBytes(
                     unpackChannelByte(value, d.rbits, d.rshift, d.rmask, u),
                     unpackChannelByte(value, d.gbits, d.gshift, d.gmask, u),
                     unpackChannelByte(value, d.bbits, d.bshift, d.bmask, u),
                     IF "PFF_HASALPHA" \in d.flags
                     THEN unpackChannelByte(value, d.abits, d.ashift, d.amask, u)
                     ELSE 255)
        ELSE LET c == unpackColorFloat(format, src)
             IN  IF ~c.ok THEN NoBytes
                 ELSE UnpackedBytes(floatToFixed(c.r, 8, u) % 256,
                                    floatToFixed(c.g, 8, u) % 256,
                                    floatToFixed(c.b, 8, u) % 256,
                                    floatToFixed(c.a, 8, u) % 256)

\* whether unpackColorByte meets an undefined operation
unpackColorByteUndefined(format, src) ==
    LET d == getDescriptionFor(format)
    IN  IF "PFF_NATIVEENDIAN" \in d.flags
        THEN LET value == intRead(src)
             IN  \/ fixedToFixedUndefined(BitShr(BitAnd(value, d.rmask), d.rshift), d.rbits, 8)
                 \/ fixedToFixedUndefined(BitShr(BitAnd(value, d.gmask), d.gshift), d.gbits, 8)
                 \/ fixedToFixedUndefined(BitShr(BitAnd(value, d.bmask), d.bshift), d.bbits, 8)
                 \/ /\ "PFF_HASALPHA" \in d.flags
                    /\ fixedToFixedUndefined(BitShr(BitAnd(value, d.amask), d.ashift), d.abits, 8)
        ELSE LET c == unpackColorFloat(format, src)
             IN  c.ok /\ \E v \in {c.r, c.g, c.b, c.a} : floatToFixedUndefined(v)

(***************************************************************************)
(* PixelData (CmPixelData.h): a box within a buffer, the buffer's pitches  *)
(* in elements, and the format.  The buffer itself is a sequence of cells, *)
(* its first cell at offset 0.                                             *)
(***************************************************************************)
PixelData(w, h, d, fmt) ==
    [left |-> 0, top |-> 0, front |-> 0, right |-> w, bottom |-> h, back |-> d,
     rowPitch |-> w, slicePitch |-> w * h, format |-> fmt]

getWidth(pd) == pd.right - pd.left

getHeight(pd) == pd.bottom - pd.top

getDepth(pd) == pd.back - pd.front

getRowSkip(pd) == pd.rowPitch - getWidth(pd)

getSliceSkip(pd) == pd.slicePitch - (getHeight(pd) * pd.rowPitch)

isConsecutive(pd) ==
    /\ pd.rowPitch = getWidth(pd)
    /\ pd.slicePitch = getWidth(pd) * getHeight(pd)

getConsecutiveSize(pd) ==
    getMemorySize(getWidth(pd), getHeight(pd), getDepth(pd), pd.format).val

(***************************************************************************)
(* bulkPixelConversion.  Offsets and lengths count cells: a length of n    *)
(* bytes is n / CellBytes(format) cells.                                   *)
(***************************************************************************)
\* dest after memcpy(dest + destOff, source + srcOff, n)
memcpy(dest, destOff, source, srcOff, n) ==
    [i \in 1..Len(dest) |->
        IF i > destOff /\ i <= destOff + n
        THEN source[srcOff + (i - destOff)] ELSE dest[i]]

\* whether that memcpy reads or writes past the end of a buffer
memcpyOverruns(dest, destOff, source, srcOff, n) ==
    n > 0 /\ (destOff + n > Len(dest) \/ srcOff + n > Len(source))

\* what a call leaves behind: how it ended, the destination buffer, the
\* steps it took, and the <<source format, destination format>> of each call
\* of bulkPixelConversion entered, the outermost first
Done(mem, log) == [status |-> "ok", mem |-> mem, log |-> log, calls |-> <<>>]

Failed(why, mem, log) ==
    [status |-> why, mem |-> mem, log |-> log, calls |-> <<>>]

\* one step of a conversion: a memcpy of n cells, or the unpackColor or the
\* packColor of pixel <<x, y, z>>, and where srcptr and dstptr stood, in cells
\* from the base of their buffers
Step(op, x, y, z, srcptr, dstptr, n) ==
    [op |-> op, x |-> x, y |-> y, z |-> z,
     srcptr |-> srcptr, dstptr |-> dstptr, n |-> n]

\* the pointer to the box's first pixel, its slice left out
FirstPixel_NoFront(pd) ==
    (pd.left + pd.top * pd.rowPitch) * CellsPerPixel(pd.format)

\* the pointer to the box's first pixel:
\* (left + top * rowPitch + front * slicePitch) * pixelSize
FirstPixel(pd) ==
    (pd.left + pd.top * pd.rowPitch + pd.front * pd.slicePitch)
        * CellsPerPixel(pd.format)

\* copyBlock copying half of the consecutive size
copyBlock_HalfSize(src, srcMem, dst, dstMem) ==
    LET n == (getConsecutiveSize(src) \div CellBytes(src.format)) \div 2
    IN  Done(memcpy(dstMem, 0, srcMem, 0, n),
             <<Step("memcpy", src.left, src.top, src.front, 0, 0, n)>>)

\* the one-block copy of the compressed and of the consecutive case
copyBlock(src, srcMem, dst, dstMem) ==
    LET n == getConsecutiveSize(src) \div CellBytes(src.format)
    IN  IF memcpyOverruns(dstMem, 0, srcMem, 0, n)
        THEN Failed("undefined", dstMem, <<>>)
        ELSE Done(memcpy(dstMem, 0, srcMem, 0, n),
                  <<Step("memcpy", src.left, src.top, src.front, 0, 0, n)>>)

\* the loops' variables before the first pass
LoopStart(src, dst, dstMem) ==
    [z |-> src.front, y |-> src.top, x |-> src.left,
     srcptr |-> FirstPixel(src), dstptr |-> FirstPixel(dst),
     mem |-> dstMem, log |-> <<>>]

\* the per-row copy, from the loops' state st on
RECURSIVE copyRows(_, _, _, _)
copyRows(src, srcMem, dst, st) ==
    LET srcPixelSize == CellsPerPixel(src.format)
        dstPixelSize == CellsPerPixel(dst.format)
        rowSize == getWidth(src) * srcPixelSize
    IN  IF st.z >= src.back THEN Done(st.mem, st.log)
        ELSE IF st.y >= src.bottom
             THEN copyRows(src, srcMem, dst,
                      [st EXCEPT !.z = @ + 1, !.y = src.top,
                           !.srcptr = @ + getSliceSkip(src) * srcPixelSize,
                           !.dstptr = @ + getSliceSkip(dst) * dstPixelSize])
        ELSE IF memcpyOverruns(st.mem, st.dstptr, srcMem, st.srcptr, rowSize)
             THEN Failed("undefined", st.mem, st.log)
        ELSE copyRows(src, srcMem, dst,
                 [st EXCEPT !.y = @ + 1,
                      !.srcptr = @ + src.rowPitch * srcPixelSize,
                      !.dstptr = @ + dst.rowPitch * dstPixelSize,
                      !.mem = memcpy(@, st.dstptr, srcMem, st.srcptr, rowSize),
                      !.log = Append(@, Step("memcpyRow", st.x, st.y, st.z,
                                             st.srcptr, st.dstptr, rowSize))])

\* cells off+1 .. off+n of mem
CellsAt(mem, off, n) == [i \in 1..n |-> mem[off + i]]

\* mem with cells written at off+1 .. off+Len(cells)
WriteAt(mem, off, cells) ==
    [i \in 1..Len(mem) |->
        IF i > off /\ i <= off + Len(cells) THEN cells[i - off] ELSE mem[i]]

\* packColor(r, g, b, a, dst.getFormat(), dstptr) of the colour c that
\* unpackColor(&r, &g, &b, &a, src.getFormat(), srcptr) yields
convertPixel(c, dstFormat, u) ==
    IF ~c.ok THEN NotImplemented
    ELSE packColorFloat(c.r, c.g, c.b, c.a, dstFormat, u)

\* the brute force fallback leaving the loops after their first pass
convertPixels_FirstPassOnly(src, srcMem, dst, st, u) ==
    LET Store(p) ==
            IF ~p.ok THEN Failed("NotImplementedException", st.mem, st.log)
            ELSE Done(WriteAt(st.mem, st.dstptr, p.px),
                      <<Step("unpackColor", st.x, st.y, st.z, st.srcptr,
                             st.dstptr, CellsPerPixel(src.format)),
                        Step("packColor", st.x, st.y, st.z, st.srcptr,
                             st.dstptr, CellsPerPixel(dst.format))>>)
    IN  Store(convertPixel(
                  unpackColorFloat(src.format,
                                   CellsAt(srcMem, st.srcptr,
                                           CellsPerPixel(src.format))),
                  dst.format, u))

\* the brute force fallback, from the loops' state st on; the log holds the
\* unpackColor calls and the packColor calls that returned
RECURSIVE convertPixels(_, _, _, _, _)
convertPixels(src, srcMem, dst, st, u) ==
    LET srcPixelSize == CellsPerPixel(src.format)
        dstPixelSize == CellsPerPixel(dst.format)
    IN  IF st.z >= src.back THEN Done(st.mem, st.log)
        ELSE IF st.y >= src.bottom
             THEN convertPixels(src, srcMem, dst,
                      [st EXCEPT !.z = @ + 1, !.y = src.top,
                           !.srcptr = @ + getSliceSkip(src) * srcPixelSize,
                           !.dstptr = @ + getSliceSkip(dst) * dstPixelSize], u)
        ELSE IF st.x >= src.right
             THEN convertPixels(src, srcMem, dst,
                      [st EXCEPT !.y = @ + 1, !.x = src.left,
                           !.srcptr = @ + getRowSkip(src) * srcPixelSize,
                           !.dstptr = @ + getRowSkip(dst) * dstPixelSize], u)
        ELSE IF st.srcptr + srcPixelSize > Len(srcMem)
             THEN Failed("undefined", st.mem, st.log)
        ELSE LET Unpack == Step("unpackColor", st.x, st.y, st.z,
                                st.srcptr, st.dstptr, srcPixelSize)
                 Pack == Step("packColor", st.x, st.y, st.z,
                              st.srcptr, st.dstptr, dstPixelSize)
                 Store(p) ==
                     IF ~p.ok
                     THEN Failed("NotImplementedException", st.mem,
                                 Append(st.log, Unpack))
                     ELSE IF st.dstptr + dstPixelSize > Len(st.mem)
                          THEN Failed("undefined", st.mem, Append(st.log, Unpack))
                     ELSE convertPixels(src, srcMem, dst,
                              [st EXCEPT !.x = @ + 1,
                                   !.srcptr = @ + srcPixelSize,
                                   !.dstptr = @ + dstPixelSize,
                                   !.mem = WriteAt(@, st.dstptr, p.px),
                                   !.log = Append(Append(@, Unpack), Pack)], u)
             IN  Store(convertPixel(
                           unpackColorFloat(src.format,
                                            CellsAt(srcMem, st.srcptr, srcPixelSize)),
                           dst.format, u))

\* whether unpacking a pixel of the format can yield a NaN, which packing
\* then converts to an integer
conversionMayBeUndefined(fmt) ==
    LET d == getDescriptionFor(fmt)
    IN  /\ "PFF_NATIVEENDIAN" \in d.flags
        /\ \/ d.rbits = 0 \/ d.gbits = 0 \/ d.bbits = 0
           \/ ("PFF_HASALPHA" \in d.flags /\ d.abits = 0)

X8Formats == {PF_X8R8G8B8, PF_X8B8G8R8}

\* tempFormat that hands a PF_X8 format to the other PF_X8 format
tempFormat_OtherX8(fmt) ==
    IF fmt = PF_X8R8G8B8 THEN PF_X8B8G8R8 ELSE PF_X8R8G8B8

\* the alpha-bearing format an X8 format is converted as
tempFormat(fmt) == IF fmt = PF_X8R8G8B8 THEN PF_A8R8G8B8 ELSE PF_A8B8G8R8

\* the buffer of a PixelData that was given none
NoBuffer == <<>>

\* the calls of bulkPixelConversion the stack has room for, one within the
\* other
MaxNesting == 4

\* bulkPixelConversion(src, dst) entered with depth calls of it under way
RECURSIVE bulkPixelConversionAt(_, _, _, _, _, _)
bulkPixelConversionAt(src, srcMem, dst, dstMem, u, depth) ==
    LET Entered(ret) ==
            [ret EXCEPT !.calls = <<<<src.format, dst.format>>>> \o @]
    IN  Entered(
        IF depth > MaxNesting THEN Failed("stack overflow", dstMem, <<>>)
        ELSE IF ~(/\ getWidth(src) = getWidth(dst)
                  /\ getHeight(src) = getHeight(dst)
                  /\ getDepth(src) = getDepth(dst))
        THEN Failed("assert", dstMem, <<>>)
        ELSE IF isCompressed(src.format) \/ isCompressed(dst.format)
        THEN IF src.format = dst.format
             THEN copyBlock(src, srcMem, dst, dstMem)
             ELSE Failed("NotImplementedException", dstMem, <<>>)
        ELSE IF src.format = dst.format
        THEN IF isConsecutive(src) /\ isConsecutive(dst)
             THEN copyBlock(src, srcMem, dst, dstMem)
             ELSE copyRows(src, srcMem, dst, LoopStart(src, dst, dstMem))
        ELSE IF dst.format \in X8Formats
        THEN LET tempdst == PixelData(getWidth(dst), getHeight(dst), getDepth(dst),
                                      tempFormat(dst.format))
                 Returned(inner) ==
                     [status |-> inner.status, mem |-> dstMem, log |-> inner.log,
                      calls |-> inner.calls]
             IN  Returned(bulkPixelConversionAt(src, srcMem, tempdst, NoBuffer, u,
                                                depth + 1))
        ELSE IF src.format \in X8Formats /\ ~hasAlpha(dst.format)
        THEN LET tempsrc == PixelData(getWidth(src), getHeight(src), getDepth(src),
                                      tempFormat(src.format))
             IN  bulkPixelConversionAt(tempsrc, srcMem, dst, dstMem, u, depth + 1)
        ELSE convertPixels(src, srcMem, dst, LoopStart(src, dst, dstMem), u))

bulkPixelConversion(src, srcMem, dst, dstMem, u) ==
    bulkPixelConversionAt(src, srcMem, dst, dstMem, u, 0)

(***************************************************************************)
(* The resamplers.  A kernel yields how it ended, the destination buffer   *)
(* it leaves and the source coordinates <<x, y, z>> it read.               *)
(***************************************************************************)
\* ((UINT64)srcExtent << 48) / dstExtent
stepFor(srcExtent, dstExtent) ==
    BDivSmall(BLow(BShl(BFromNat(srcExtent), 48), 64), dstExtent)

MinusOne64 == BSub(BShl(BOne, 64), BOne)

\* cur in the i-th pass of its loop: (step >> 1) - 1, then i times
\* cur += step, in 64 bits
curAt(step, i) ==
    BLow(BAdd(BAdd(BShr(step, 1), MinusOne64), BMulNat(step, i)), 64)

\* (UINT32)(cur >> bits)
HighBits(cur, bits) == BToNat(BLow(BShr(cur, bits), 32))

nearestCoord(srcExtent, dstExtent, i) ==
    HighBits(curAt(stepFor(srcExtent, dstExtent), i), 48)

sampleCoord2_Unclamped(coord1, extent) == coord1 + 1

\* std::min(sampleCoord1 + 1, extent - 1)
sampleCoord2(coord1, extent) ==
    IF coord1 + 1 < extent - 1 THEN coord1 + 1 ELSE extent - 1

\* the two coordinates and the 16-bit weight of LinearResampler and
\* LinearResampler_Float32
linearSample(srcExtent, dstExtent, i) ==
    LET t0   == HighBits(curAt(stepFor(srcExtent, dstExtent), i), 32)
        temp == IF t0 > 32768 THEN t0 - 32768 ELSE 0
    IN  [c1 |-> temp \div 65536,
         c2 |-> sampleCoord2(temp \div 65536, srcExtent),
         w  |-> temp % 65536]

\* the two coordinates and the 12-bit weight of LinearResampler_Byte
byteSample(srcExtent, dstExtent, i) ==
    LET t0   == HighBits(curAt(stepFor(srcExtent, dstExtent), i), 36)
        temp == IF t0 > 2048 THEN t0 - 2048 ELSE 0
    IN  [c1 |-> temp \div 4096,
         c2 |-> sampleCoord2(temp \div 4096, srcExtent),
         w  |-> temp % 4096]

\* the element offset of source pixel c = <<x, y, z>>
sourceOffset(source, c) ==
    c[1] + c[2] * source.rowPitch + c[3] * source.slicePitch

\* n cells from offset off; a cell past the end of the buffer holds anything
ReadCells(mem, off, n) ==
    [i \in 1..n |-> IF off + i <= Len(mem) THEN mem[off + i] ELSE mem[1]]

\* the destination buffer after the passes from the k-th on, destPtr
\* running from the start of the buffer
RECURSIVE writePixels(_, _, _, _)
writePixels(dest, destMem, pixels, k) ==
    LET size    == CellsPerPixel(dest.format)
        destPtr == (k + (k \div getWidth(dest)) * getRowSkip(dest)
                      + (k \div (getWidth(dest) * getHeight(dest)))
                            * getSliceSkip(dest)) * size
    IN  IF k >= Len(pixels) THEN destMem
        ELSE writePixels(dest, WriteAt(destMem, destPtr, pixels[k + 1]),
                         pixels, k + 1)

\* the pointer past the last pixel written
lastWrite(dest) ==
    LET n == getWidth(dest) * getHeight(dest) * getDepth(dest) - 1
    IN  (n + (n \div getWidth(dest)) * getRowSkip(dest)
           + (n \div (getWidth(dest) * getHeight(dest))) * getSliceSkip(dest) + 1)
            * CellsPerPixel(dest.format)

Resampled(source, sourceMem, dest, destMem, pixels, reads) ==
    IF \/ \E c \in reads :
              (sourceOffset(source, c) + 1) * CellsPerPixel(source.format)
                  > Len(sourceMem)
       \/ lastWrite(dest) > Len(destMem)
    THEN [status |-> "undefined", mem |-> destMem, reads |-> reads]
    ELSE [status |-> "ok", mem |-> writePixels(dest, destMem, pixels, 0),
          reads |-> reads]

\* f[1], ..., f[n], each computed once
Table(f, n) == SubSeq(f, 1, n)

\* the destination coordinates of the k-th pass
PassX(dest, k) == k % getWidth(dest)

PassY(dest, k) == (k \div getWidth(dest)) % getHeight(dest)

PassZ(dest, k) == k \div (getWidth(dest) * getHeight(dest))

Passes(dest) == getWidth(dest) * getHeight(dest) * getDepth(dest)

\* the samples <<sx, sy, sz>> of the k-th pass, from those of each axis
PassSamples(dest, xs, ys, zs, k) ==
    <<xs[PassX(dest, k) + 1], ys[PassY(dest, k) + 1], zs[PassZ(dest, k) + 1]>>

\* curX >> 48 in every pass along an axis
nearestCoords(srcExtent, dstExtent) ==
    Table([i \in 1..dstExtent |-> nearestCoord(srcExtent, dstExtent, i - 1)],
          dstExtent)

NearestResampler(source, sourceMem, dest, destMem) ==
    LET size == CellsPerPixel(source.format)
        Scaled(xs, ys, zs) ==
            Resampled(source, sourceMem, dest, destMem,
                Table([k \in 1..Passes(dest) |->
                          ReadCells(sourceMem,
                                    size * sourceOffset(source,
                                               PassSamples(dest, xs, ys, zs, k - 1)),
                                    size)],
                      Passes(dest)),
                {PassSamples(dest, xs, ys, zs, k) : k \in 0..(Passes(dest) - 1)})
    IN  Scaled(nearestCoords(getWidth(source), getWidth(dest)),
               nearestCoords(getHeight(source), getHeight(dest)),
               nearestCoords(getDepth(source), getDepth(dest)))

\* the samples of every pass along an axis
linearSamples(srcExtent, dstExtent) ==
    Table([i \in 1..dstExtent |-> linearSample(srcExtent, dstExtent, i - 1)],
          dstExtent)

\* the eight samples of a pass, x1y1z1 first
Corners(s) ==
    <<<<s[1].c1, s[2].c1, s[3].c1>>, <<s[1].c2, s[2].c1, s[3].c1>>,
      <<s[1].c1, s[2].c2, s[3].c1>>, <<s[1].c2, s[2].c2, s[3].c1>>,
      <<s[1].c1, s[2].c1, s[3].c2>>, <<s[1].c2, s[2].c1, s[3].c2>>,
      <<s[1].c1, s[2].c2, s[3].c2>>, <<s[1].c2, s[2].c2, s[3].c2>>>>

\* sampleWeight as a float
Weight(w) == FCanon(w, 0 - 16)

\* the factor of each of the eight samples, from the weights w and
\* n = 1.0f - w of the three axes: (x part * y part) * z part, the x part
\* being w at the x2 samples, the y part w at the y2 ones, the z part w at
\* the z2 ones
BlendFactors(wx, wy, wz, nx, ny, nz) ==
    [j \in 1..8 |->
        FMul(FMul(IF j % 2 = 0 THEN wx ELSE nx,
                  IF ((j - 1) \div 2) % 2 = 1 THEN wy ELSE ny),
             IF j > 4 THEN wz ELSE nz)]

Factors(s) ==
    BlendFactors(Weight(s[1].w), Weight(s[2].w), Weight(s[3].w),
                 FSub(FOne, Weight(s[1].w)), FSub(FOne, Weight(s[2].w)),
                 FSub(FOne, Weight(s[3].w)))

\* t[i] + ... + t[n] added to acc, summed from the left
RECURSIVE SumFrom(_, _, _)
SumFrom(acc, t, i) ==
    IF i > Len(t) THEN acc ELSE SumFrom(FAdd(acc, t[i]), t, i + 1)

\* v[1] * f[1] + ... + v[8] * f[8], as Color's operators compute one channel
accumChannel(v, f) ==
    LET Sum(t) == SumFrom(t[1], t, 2)
    IN  Sum(Table([j \in 1..8 |-> FMul(v[j], f[j])], 8))

LinearResampler(source, sourceMem, dest, destMem, u) ==
    LET size == CellsPerPixel(source.format)
        Colors(cs) ==
            Table([j \in 1..8 |->
                      unpackColorFloat(source.format,
                          ReadCells(sourceMem, size * sourceOffset(source, cs[j]),
                                    size))],
                  8)
        Accum(c, f) ==
            packColorFloat(accumChannel([j \in 1..8 |-> c[j].r], f),
                           accumChannel([j \in 1..8 |-> c[j].g], f),
                           accumChannel([j \in 1..8 |-> c[j].b], f),
                           accumChannel([j \in 1..8 |-> c[j].a], f),
                           dest.format, u).px
        PixelOf(s) == Accum(Colors(Corners(s)), Factors(s))
        Scaled(xs, ys, zs) ==
            Resampled(source, sourceMem, dest, destMem,
                Table([k \in 1..Passes(dest) |->
                          PixelOf(PassSamples(dest, xs, ys, zs, k - 1))],
                      Passes(dest)),
                UNION {{Corners(PassSamples(dest, xs, ys, zs, k))[j] : j \in 1..8} :
                          k \in 0..(Passes(dest) - 1)})
    IN  Scaled(linearSamples(getWidth(source), getWidth(dest)),
               linearSamples(getHeight(source), getHeight(dest)),
               linearSamples(getDepth(source), getDepth(dest)))

\* accumFloat32 without accum[3] = 1.0f
accumFloat32_AlphaBlended(ch, rgb, terms) == SumFrom(FZero, terms, 1)

\* accum[ch - 1] after ACCUM3 or ACCUM4 of the eight samples, terms being
\* sourceData[offset + ch - 1] * f of each: accum[3] is 1.0f in the RGB branch
accumFloat32(ch, rgb, terms) ==
    IF ch = 4 /\ rgb THEN FOne ELSE SumFrom(FZero, terms, 1)

LinearResampler_Float32(source, sourceMem, dest, destMem) ==
    LET numSourceChannels == CellsPerPixel(source.format)
        numDestChannels   == CellsPerPixel(dest.format)
        rgb == numSourceChannels = 3 \/ numDestChannels = 3
        Accum(cs, f) ==
            [ch \in 1..numDestChannels |->
                accumFloat32(ch, rgb,
                    [j \in 1..8 |->
                        FMul(ReadCells(sourceMem,
                                 numSourceChannels * sourceOffset(source, cs[j])
                                     + ch - 1,
                                 1)[1],
                             f[j])])]
        PixelOf(s) == Accum(Corners(s), Factors(s))
        Scaled(xs, ys, zs) ==
            Resampled(source, sourceMem, dest, destMem,
                Table([k \in 1..Passes(dest) |->
                          PixelOf(PassSamples(dest, xs, ys, zs, k - 1))],
                      Passes(dest)),
                UNION {{Corners(PassSamples(dest, xs, ys, zs, k))[j] : j \in 1..8} :
                          k \in 0..(Passes(dest) - 1)})
    IN  Scaled(linearSamples(getWidth(source), getWidth(dest)),
               linearSamples(getHeight(source), getHeight(dest)),
               linearSamples(getDepth(source), getDepth(dest)))

\* a UINT32 sum and a UINT32 difference
Add32(a, b) == BLow(BAdd(a, b), 32)

Sub32(a, b) == BLow(BAdd(a, BSub(BShl(BOne, 32), b)), 32)

\* the factors of the four samples, x1y1 first, as UINT32:
\* 0x1000000 - (wx << 12) - (wy << 12) + sxfsyf, (wx << 12) - sxfsyf,
\* (wy << 12) - sxfsyf and sxfsyf = wx * wy
byteWeights(wx, wy) ==
    LET sxfsyf == BFromNat(wx * wy)
        wx12   == BFromNat(wx * 4096)
        wy12   == BFromNat(wy * 4096)
    IN  <<BToNat(Add32(Sub32(Sub32(BFromNat(16777216), wx12), wy12), sxfsyf)),
          BToNat(Sub32(wx12, sxfsyf)), BToNat(Sub32(wy12, sxfsyf)),
          BToNat(sxfsyf)>>

\* roundedByte without the + 0x800000
roundedByte_Truncating(s, w) ==
    BToNat(BShr(BLow(BAdd(BAdd(BMulNat(BFromNat(w[1]), s[1]),
                               BMulNat(BFromNat(w[2]), s[2])),
                          BAdd(BMulNat(BFromNat(w[3]), s[3]),
                               BMulNat(BFromNat(w[4]), s[4]))), 32), 24)) % 256

\* (UINT8)((accum + 0x800000) >> 24) for the 32-bit accum of four byte
\* samples s and their weights w
roundedByte(s, w) ==
    LET accum == BLow(BAdd(BAdd(BMulNat(BFromNat(w[1]), s[1]),
                                BMulNat(BFromNat(w[2]), s[2])),
                           BAdd(BMulNat(BFromNat(w[3]), s[3]),
                                BMulNat(BFromNat(w[4]), s[4]))), 32)
    IN  BToNat(BShr(BLow(BAdd(accum, BShl(BOne, 23)), 32), 24)) % 256

\* the samples of every pass along an axis
byteSamples(srcExtent, dstExtent) ==
    Table([i \in 1..dstExtent |-> byteSample(srcExtent, dstExtent, i - 1)],
          dstExtent)

LinearResampler_Byte(source, sourceMem, dest, destMem, u) ==
    IF getDepth(source) > 1 \/ getDepth(dest) > 1
    THEN LinearResampler(source, sourceMem, dest, destMem, u)
    ELSE
    LET channels == CellsPerPixel(source.format)
        Corners2(sx, sy) ==
            <<<<sx.c1, sy.c1, 0>>, <<sx.c2, sy.c1, 0>>,
              <<sx.c1, sy.c2, 0>>, <<sx.c2, sy.c2, 0>>>>
        Accum(cs, w) ==
            [ch \in 1..channels |->
                roundedByte([j \in 1..4 |->
                                ReadCells(sourceMem,
                                    channels * sourceOffset(source, cs[j]) + ch - 1,
                                    1)[1]],
                            w)]
        PixelOf(sx, sy) == Accum(Corners2(sx, sy), byteWeights(sx.w, sy.w))
        Scaled(xs, ys) ==
            Resampled(source, sourceMem, dest, destMem,
                Table([k \in 1..Passes(dest) |->
                          PixelOf(xs[PassX(dest, k - 1) + 1],
                                  ys[PassY(dest, k - 1) + 1])],
                      Passes(dest)),
                UNION {{Corners2(xs[PassX(dest, k) + 1],
                                 ys[PassY(dest, k) + 1])[j] : j \in 1..4} :
                          k \in 0..(Passes(dest) - 1)})
    IN  Scaled(byteSamples(getWidth(source), getWidth(dest)),
               byteSamples(getHeight(source), getHeight(dest)))

(***************************************************************************)
(* scale                                                                   *)
(***************************************************************************)
\* ByteLinearFormats with a "case PF_FLOAT32_RGBA:" among them
ByteLinearFormats_WithFloat32 ==
    {PF_R8G8, PF_R8G8B8, PF_B8G8R8, PF_R8G8B8A8, PF_B8G8R8A8,
     PF_A8B8G8R8, PF_A8R8G8B8, PF_X8B8G8R8, PF_X8R8G8B8, PF_FLOAT32_RGBA}

\* the formats scale hands to LinearResampler_Byte
ByteLinearFormats ==
    {PF_R8G8, PF_R8G8B8, PF_B8G8R8, PF_R8G8B8A8, PF_B8G8R8A8,
     PF_A8B8G8R8, PF_A8R8G8B8, PF_X8B8G8R8, PF_X8R8G8B8}

\* temp: scaled itself when the formats agree, else a PixelData of scaled's
\* size in src's format
tempFor(source, scaled) ==
    IF source.format = scaled.format THEN scaled
    ELSE PixelData(getWidth(scaled), getHeight(scaled), getDepth(scaled),
                   source.format)

\* the buffer of temp: scaled's, or the one allocateInternalBuffer returns
tempBuffer(source, scaled, scaledMem) ==
    IF source.format = scaled.format THEN scaledMem
    ELSE [i \in 1..(getConsecutiveSize(tempFor(source, scaled))
                        \div CellBytes(source.format)) |->
             IF getElementType(source.format) = "PCT_BYTE" THEN 0 ELSE FZero]

\* one step of scale: what was called, the buffer it allocates, writes or
\* releases, and what scaled's buffer holds when it returns
ScaleStep(op, buffer, scaledMem) ==
    [op |-> op, buffer |-> buffer, scaled |-> scaledMem]

\* what scale leaves behind
ScaleResult(status, mem, reads, log) ==
    [status |-> status, mem |-> mem, reads |-> reads, log |-> log]

\* blitTemp without temp.freeInternalBuffer()
blitTemp_NoRelease(source, scaled, scaledMem, kernel, resampled, u) ==
    IF source.format = scaled.format
    THEN ScaleResult(resampled.status, resampled.mem, resampled.reads,
                     <<ScaleStep(kernel, "scaled", resampled.mem)>>)
    ELSE LET Blitted(blit) ==
                 ScaleResult(blit.status, blit.mem, resampled.reads,
                     <<ScaleStep("allocateInternalBuffer", "temp", scaledMem),
                       ScaleStep(kernel, "temp", scaledMem),
                       ScaleStep("bulkPixelConversion", "scaled", blit.mem)>>)
         IN  Blitted(bulkPixelConversion(tempFor(source, scaled), resampled.mem,
                                         scaled, scaledMem, u))

\* the kernel's call, then "if(temp.getData() != scaled.getData())": the blit
\* of temp and its release
blitTemp(source, scaled, scaledMem, kernel, resampled, u) ==
    IF source.format = scaled.format
    THEN ScaleResult(resampled.status, resampled.mem, resampled.reads,
                <<ScaleStep(kernel, "scaled", resampled.mem)>>)
    ELSE IF resampled.status # "ok"
         THEN ScaleResult(resampled.status, scaledMem, resampled.reads,
                     <<ScaleStep("allocateInternalBuffer", "temp", scaledMem),
                       ScaleStep(kernel, "temp", scaledMem)>>)
    ELSE LET Blitted(blit) ==
                 ScaleResult(blit.status, blit.mem, resampled.reads,
                        <<ScaleStep("allocateInternalBuffer", "temp", scaledMem),
                          ScaleStep(kernel, "temp", scaledMem),
                          ScaleStep("bulkPixelConversion", "scaled", blit.mem)>>
                            \o (IF blit.status = "ok"
                                THEN <<ScaleStep("freeInternalBuffer", "temp",
                                                 blit.mem)>>
                                ELSE <<>>))
         IN  Blitted(bulkPixelConversion(tempFor(source, scaled), resampled.mem,
                                         scaled, scaledMem, u))

\* a kernel that writes to scaled itself
direct(kernel, resampled) ==
    ScaleResult(resampled.status, resampled.mem, resampled.reads,
           <<ScaleStep(kernel, "scaled", resampled.mem)>>)

scale(source, sourceMem, scaled, scaledMem, filter, u) ==
    IF ~isAccessible(source.format) \/ ~isAccessible(scaled.format)
    THEN ScaleResult("assert", scaledMem, {}, <<>>)
    ELSE IF filter # "FILTER_BILINEAR"
    THEN IF getNumElemBytes(source.format) \in {1, 2, 3, 4, 6, 8, 12, 16}
         THEN blitTemp(source, scaled, scaledMem, "NearestResampler",
                       NearestResampler(source, sourceMem, tempFor(source, scaled),
                                        tempBuffer(source, scaled, scaledMem)),
                       u)
         ELSE ScaleResult("assert", scaledMem, {},
                     IF source.format = scaled.format THEN <<>>
                     ELSE <<ScaleStep("allocateInternalBuffer", "temp", scaledMem)>>)
    ELSE IF source.format \in ByteLinearFormats
    THEN IF getNumElemBytes(source.format) \in {1, 2, 3, 4}
         THEN blitTemp(source, scaled, scaledMem, "LinearResampler_Byte",
                       LinearResampler_Byte(source, sourceMem,
                                            tempFor(source, scaled),
                                            tempBuffer(source, scaled, scaledMem), u),
                       u)
         ELSE ScaleResult("assert", scaledMem, {},
                     IF source.format = scaled.format THEN <<>>
                     ELSE <<ScaleStep("allocateInternalBuffer", "temp", scaledMem)>>)
    ELSE IF /\ source.format \in {PF_FLOAT32_RGB, PF_FLOAT32_RGBA}
            /\ scaled.format \in {PF_FLOAT32_RGB, PF_FLOAT32_RGBA}
    THEN direct("LinearResampler_Float32",
                LinearResampler_Float32(source, sourceMem, scaled, scaledMem))
    ELSE direct("LinearResampler",
                LinearResampler(source, sourceMem, scaled, scaledMem, u))

(***************************************************************************)
(* State                                                                   *)
(***************************************************************************)
VARIABLES
    \* a call of a catalog query: its arguments, getMaxMipmaps' locals, the
    \* number, the truth value or the description returned, and the position
    \* in the call
    argFormat, argWidth, argHeight, argDepth,
    width, height, depth, count, ret, valid, des, catPc,
    \* the colour codec: the format, the float colour and the byte colour
    \* handed to packColor, the pixel's memory, the colours unpackColor
    \* returned, and which overloads have run
    format, colorIn, bytesIn, pixel, colorOut, bytesOut, packedBy, unpackedBy,
    \* a call of bulkPixelConversion: the two PixelData, the buffers they
    \* describe, how the call ended, the steps it took and the calls of
    \* bulkPixelConversion entered
    src, dst, srcMem, dstMem, bulkStatus, bulkLog, bulkCalls,
    \* a call of scale: the two PixelData, the buffers they describe, the
    \* filter, the source coordinates read, how the call ended and the steps
    \* it took
    scaleSrc, scaleSrcMem, scaled, scaledMem, filter, reads, scaleStatus,
    scaleLog,
    \* one channel of one pass of LinearResampler_Byte: the two 12-bit
    \* weights, the four bytes sampled (x1y1 first), the byte stored through
    \* destPtr, and the position in the pass
    sampleWeightX, sampleWeightY, samples, destByte, blendPc

catVars ==
    <<argFormat, argWidth, argHeight, argDepth,
      width, height, depth, count, ret, valid, des, catPc>>

codecVars ==
    <<format, colorIn, bytesIn, pixel, colorOut, bytesOut, packedBy, unpackedBy>>

bulkVars == <<src, dst, srcMem, dstMem, bulkStatus, bulkLog, bulkCalls>>

scaleVars ==
    <<scaleSrc, scaleSrcMem, scaled, scaledMem, filter, reads, scaleStatus,
      scaleLog>>

blendVars == <<sampleWeightX, sampleWeightY, samples, destByte, blendPc>>

vars == <<_pixelFormats, catVars, codecVars, bulkVars, scaleVars, blendVars>>

notCat == <<_pixelFormats, codecVars, bulkVars, scaleVars, blendVars>>

notCodec == <<_pixelFormats, catVars, bulkVars, scaleVars, blendVars>>

notBulk == <<_pixelFormats, catVars, codecVars, scaleVars, blendVars>>

notScale == <<_pixelFormats, catVars, codecVars, bulkVars, blendVars>>

notBlend == <<_pixelFormats, catVars, codecVars, bulkVars, scaleVars>>

(***************************************************************************)
(* The catalog queries                                                     *)
(***************************************************************************)
MaxExtent == 5

MaxDepth == 2

MipCountCap == 10

\* extents passed to the catalog queries: the small ones, 8 and 256
Extents == 0..MaxExtent \cup {8, 256}

Depths == 0..MaxDepth

\* no catalog query under way
CatIdle ==
    /\ argFormat = PF_UNKNOWN
    /\ argWidth = 0
    /\ argHeight = 0
    /\ argDepth = 0
    /\ width = 0
    /\ height = 0
    /\ depth = 0
    /\ count = 0
    /\ ret = 0
    /\ valid = FALSE
    /\ des = getDescriptionFor(PF_UNKNOWN)
    /\ catPc = "idle"

CatInit ==
    /\ argFormat \in PixelFormat
    /\ argWidth \in Extents
    /\ argHeight \in Extents
    /\ argDepth \in Depths
    /\ width = argWidth
    /\ height = argHeight
    /\ depth = argDepth
    /\ count = 0
    /\ ret = 0
    /\ valid = FALSE
    /\ des = getDescriptionFor(PF_UNKNOWN)
    /\ catPc = "ready"

CallGetMemorySize ==
    /\ catPc = "ready"
    /\ LET size == getMemorySize(argWidth, argHeight, argDepth, argFormat)
       IN  /\ ret' = size.val
           /\ catPc' = IF size.ok THEN "memorySize"
                       ELSE "InvalidParametersException"
    /\ UNCHANGED <<argFormat, argWidth, argHeight, argDepth,
                   width, height, depth, count, valid, des>>
    /\ UNCHANGED notCat

CallIsValidExtent ==
    /\ catPc = "ready"
    /\ valid' = isValidExtent(argWidth, argHeight, argDepth, argFormat)
    /\ catPc' = "validExtent"
    /\ UNCHANGED <<argFormat, argWidth, argHeight, argDepth,
                   width, height, depth, count, ret, des>>
    /\ UNCHANGED notCat

CallGetDescription ==
    /\ catPc = "ready"
    /\ des' = getDescriptionFor(argFormat)
    /\ catPc' = "described"
    /\ UNCHANGED <<argFormat, argWidth, argHeight, argDepth,
                   width, height, depth, count, ret, valid>>
    /\ UNCHANGED notCat

CallIsAccessible ==
    /\ catPc = "ready"
    /\ valid' = isAccessible(argFormat)
    /\ catPc' = "accessible"
    /\ UNCHANGED <<argFormat, argWidth, argHeight, argDepth,
                   width, height, depth, count, ret, des>>
    /\ UNCHANGED notCat

\* getMaxMipmaps: count = 0 and the test that guards the loop
MipEnter ==
    /\ catPc = "ready"
    /\ count' = 0
    /\ catPc' = IF (width > 0) /\ (height > 0) THEN "mipBody" ELSE "mipReturn"
    /\ UNCHANGED <<argFormat, argWidth, argHeight, argDepth,
                   width, height, depth, ret, valid, des>>
    /\ UNCHANGED notCat

\* one pass through the do-while body and its exit test; count is an
\* unsigned integer that wraps, here at MipCountCap instead of 2^32
MipIterate ==
    /\ catPc = "mipBody"
    /\ width' = MipHalve(width)
    /\ height' = MipHalve(height)
    /\ depth' = MipHalve(depth)
    /\ count' = (count + 1) % MipCountCap
    /\ catPc' = IF MipLoopExit(width', height', depth')
                THEN "mipReturn" ELSE "mipBody"
    /\ UNCHANGED <<argFormat, argWidth, argHeight, argDepth, ret, valid, des>>
    /\ UNCHANGED notCat

MipReturn ==
    /\ catPc = "mipReturn"
    /\ ret' = count
    /\ catPc' = "maxMipmaps"
    /\ UNCHANGED <<argFormat, argWidth, argHeight, argDepth,
                   width, height, depth, count, valid, des>>
    /\ UNCHANGED notCat

CatNext ==
    \/ CallGetMemorySize
    \/ CallIsValidExtent
    \/ CallGetDescription
    \/ CallIsAccessible
    \/ MipEnter
    \/ MipIterate
    \/ MipReturn

(***************************************************************************)
(* packColor and unpackColor                                               *)
(***************************************************************************)
ColorBits == 13

LevelCount == 51

\* the channel value k/LevelCount, cut to ColorBits binary places
Level(k) == FCanon((k * (2^ColorBits)) \div LevelCount, 0 - ColorBits)

\* what a float cell of a raw pixel may hold
RawLevels == {Level(0), Level(LevelCount \div 3), Level(LevelCount)}

\* the byte colours handed to packColor: each channel runs through every
\* byte value, no two channels alike
ByteColors ==
    {[r |-> v, g |-> 255 - v, b |-> (v + 64) % 256, a |-> (v + 128) % 256] :
        v \in 0..255}

\* the float colours handed to packColor: each channel runs through every
\* level, no two channels alike
FloatColors ==
    {[r |-> Level(k), g |-> Level(LevelCount - k),
      b |-> Level((k + LevelCount \div 3) % (LevelCount + 1)),
      a |-> Level((k + 2 * (LevelCount \div 3)) % (LevelCount + 1))] :
        k \in 0..LevelCount}

RawBytes == {0, 128, 255}

\* what a pixel's memory may hold before anything is packed into it
RawPixels(fmt) ==
    IF ~isAccessible(fmt) THEN {<<>>}
    ELSE IF getElementType(fmt) = "PCT_BYTE"
         THEN [1..CellsPerPixel(fmt) -> RawBytes]
    ELSE IF getElementType(fmt) = "PCT_FLOAT16"
         THEN [1..CellsPerPixel(fmt) -> {floatToHalf(l) : l \in RawLevels}]
    ELSE [1..CellsPerPixel(fmt) -> RawLevels]

ZeroPixel(fmt) ==
    IF ~isAccessible(fmt) THEN <<>>
    ELSE IF getElementType(fmt) = "PCT_BYTE"
         THEN [i \in 1..CellsPerPixel(fmt) |-> 0]
    ELSE [i \in 1..CellsPerPixel(fmt) |-> FZero]

NoFloatColor == [r |-> FZero, g |-> FZero, b |-> FZero, a |-> FZero]

NoByteColor == [r |-> 0, g |-> 0, b |-> 0, a |-> 0]

\* what an undefined conversion or division may yield in a channel
Undefined == 0..255

\* no codec call under way
CodecIdle ==
    /\ format = PF_UNKNOWN
    /\ colorIn = NoFloatColor
    /\ bytesIn = NoByteColor
    /\ pixel = <<>>
    /\ colorOut = NoFloatColor
    /\ bytesOut = NoByteColor
    /\ packedBy = "idle"
    /\ unpackedBy = "idle"

CodecInit ==
    /\ format \in PixelFormat
    /\ \/ colorIn \in FloatColors /\ bytesIn = NoByteColor /\ pixel = ZeroPixel(format)
       \/ colorIn = NoFloatColor /\ bytesIn \in ByteColors /\ pixel = ZeroPixel(format)
       \/ colorIn = NoFloatColor /\ bytesIn = NoByteColor /\ pixel \in RawPixels(format)
    /\ colorOut = NoFloatColor
    /\ bytesOut = NoByteColor
    /\ packedBy = "none"
    /\ unpackedBy = "none"

\* packColor(float r, float g, float b, float a, format, dest)
PackColorFloat ==
    /\ packedBy = "none" /\ unpackedBy = "none"
    /\ \E u \in IF packColorFloatUndefined(colorIn.r, colorIn.g, colorIn.b,
                                           colorIn.a, format)
                THEN Undefined ELSE {0} :
           \E p \in {packColorFloat(colorIn.r, colorIn.g, colorIn.b, colorIn.a,
                                    format, u)} :
               /\ pixel' = IF p.ok THEN p.px ELSE pixel
               /\ packedBy' = IF p.ok THEN "float" ELSE "NotImplementedException"
    /\ UNCHANGED <<format, colorIn, bytesIn, colorOut, bytesOut, unpackedBy>>
    /\ UNCHANGED notCodec

\* packColor(UINT8 r, UINT8 g, UINT8 b, UINT8 a, format, dest)
PackColorByte ==
    /\ packedBy = "none" /\ unpackedBy = "none"
    /\ \E p \in {packColorByte(bytesIn.r, bytesIn.g, bytesIn.b, bytesIn.a,
                               format, 0)} :
           /\ pixel' = IF p.ok THEN p.px ELSE pixel
           /\ packedBy' = IF p.ok THEN "byte" ELSE "NotImplementedException"
    /\ UNCHANGED <<format, colorIn, bytesIn, colorOut, bytesOut, unpackedBy>>
    /\ UNCHANGED notCodec

\* unpackColor(float* r, float* g, float* b, float* a, format, src)
UnpackColorFloat ==
    /\ packedBy # "NotImplementedException" /\ unpackedBy = "none"
    /\ \E c \in {unpackColorFloat(format, pixel)} :
           /\ colorOut' = IF c.ok THEN [r |-> c.r, g |-> c.g, b |-> c.b, a |-> c.a]
                          ELSE colorOut
           /\ unpackedBy' = IF c.ok THEN "float" ELSE "NotImplementedException"
    /\ UNCHANGED <<format, colorIn, bytesIn, pixel, bytesOut, packedBy>>
    /\ UNCHANGED notCodec

\* unpackColor(UINT8* r, UINT8* g, UINT8* b, UINT8* a, format, src); a
\* division by zero in it yields any byte or stops the program
UnpackColorByte ==
    /\ packedBy # "NotImplementedException" /\ unpackedBy = "none"
    /\ \/ \E u \in IF unpackColorByteUndefined(format, pixel)
                   THEN Undefined ELSE {0} :
              \E c \in {unpackColorByte(format, pixel, u)} :
                  /\ bytesOut' = IF c.ok
                                 THEN [r |-> c.r, g |-> c.g, b |-> c.b, a |-> c.a]
                                 ELSE bytesOut
                  /\ unpackedBy' = IF c.ok THEN "byte"
                                   ELSE "NotImplementedException"
       \/ /\ unpackColorByteUndefined(format, pixel)
          /\ bytesOut' = bytesOut
          /\ unpackedBy' = "trap"
    /\ UNCHANGED <<format, colorIn, bytesIn, pixel, colorOut, packedBy>>
    /\ UNCHANGED notCodec

CodecNext ==
    \/ PackColorFloat
    \/ PackColorByte
    \/ UnpackColorFloat
    \/ UnpackColorByte

(***************************************************************************)
(* bulkPixelConversion                                                     *)
(***************************************************************************)
MaxSide == 2

Sides == 1..MaxSide

\* where a box lies in its buffer: <<left, top, front>>
BoxOffsets == {<<0, 0, 0>>, <<1, 0, 0>>, <<0, 1, 0>>, <<0, 0, 1>>, <<1, 1, 1>>}

\* the padding of a buffer: <<elements after each row, rows after each slice>>
Paddings == {<<0, 0>>, <<1, 0>>, <<0, 1>>}

\* the w x h x d box at off within a buffer just large enough for it,
\* padded by pad
View(w, h, d, off, pad, fmt) ==
    [left |-> off[1], top |-> off[2], front |-> off[3],
     right |-> off[1] + w, bottom |-> off[2] + h, back |-> off[3] + d,
     rowPitch |-> off[1] + w + pad[1],
     slicePitch |-> (off[1] + w + pad[1]) * (off[2] + h + pad[2]),
     format |-> fmt]

\* the number of cells of the buffer a PixelData describes
BufferCells(pd) ==
    IF isCompressed(pd.format)
    THEN getMemorySize(pd.rowPitch, pd.slicePitch \div pd.rowPitch, pd.back,
                       pd.format).val
    ELSE pd.slicePitch * pd.back * CellsPerPixel(pd.format)

\* what the cells of a source and of a destination buffer hold before the
\* call: no two cells near each other alike, no source cell like a
\* destination cell
SrcCell(fmt, i) ==
    IF getElementType(fmt) = "PCT_BYTE" THEN (2 * i) % 256 ELSE FCanon(2 * i, 0 - 10)

DstCell(fmt, i) ==
    IF getElementType(fmt) = "PCT_BYTE" THEN (2 * i + 1) % 256
    ELSE FCanon(2 * i + 1, 0 - 10)

SrcBuffer(pd) == [i \in 1..BufferCells(pd) |-> SrcCell(pd.format, i)]

DstBuffer(pd) == [i \in 1..BufferCells(pd) |-> DstCell(pd.format, i)]

\* the formats copied, and the pairs converted
CopiedFormats ==
    {PF_R8, PF_R8G8, PF_R8G8B8, PF_A8R8G8B8, PF_X8R8G8B8, PF_FLOAT16_RGB,
     PF_FLOAT32_R, PF_FLOAT32_RGBA, PF_D16, PF_DXT1}

ConvertedPairs ==
    {<<PF_R8G8B8, PF_A8R8G8B8>>, <<PF_A8R8G8B8, PF_R8>>,
     <<PF_A8R8G8B8, PF_X8R8G8B8>>, <<PF_R8G8B8, PF_X8B8G8R8>>,
     <<PF_X8R8G8B8, PF_R8G8B8>>, <<PF_X8B8G8R8, PF_A8B8G8R8>>,
     <<PF_R8, PF_FLOAT32_R>>, <<PF_FLOAT16_RGB, PF_B8G8R8>>,
     <<PF_DXT1, PF_R8>>, <<PF_R8, PF_DXT3>>, <<PF_R8, PF_D16>>,
     <<PF_D32, PF_R8>>}

FormatPairs == {<<f, f>> : f \in CopiedFormats} \cup ConvertedPairs

NoPixelData == PixelData(0, 0, 0, PF_UNKNOWN)

\* no conversion under way
BulkIdle ==
    /\ src = NoPixelData
    /\ dst = NoPixelData
    /\ srcMem = <<>>
    /\ dstMem = <<>>
    /\ bulkStatus = "idle"
    /\ bulkLog = <<>>
    /\ bulkCalls = <<>>

\* the destination has the source's extents, or is one element narrower;
\* a single pixel is converted between any two formats
BulkInit ==
    /\ \/ \E w \in Sides, h \in Sides, d \in Sides, pair \in FormatPairs :
          \E srcOff \in BoxOffsets, dstOff \in BoxOffsets,
             srcPad \in Paddings, dstPad \in Paddings :
          \E dw \in {w} \cup (IF srcOff = dstOff /\ srcPad = dstPad /\ w > 1
                               THEN {w - 1} ELSE {}) :
              /\ src = View(w, h, d, srcOff, srcPad, pair[1])
              /\ dst = View(dw, h, d, dstOff, dstPad, pair[2])
       \/ \E srcFormat \in PixelFormat, dstFormat \in PixelFormat :
              /\ src = View(1, 1, 1, <<0, 0, 0>>, <<0, 0>>, srcFormat)
              /\ dst = View(1, 1, 1, <<0, 0, 0>>, <<0, 0>>, dstFormat)
    /\ srcMem = SrcBuffer(src)
    /\ dstMem = DstBuffer(dst)
    /\ bulkStatus = "ready"
    /\ bulkLog = <<>>
    /\ bulkCalls = <<>>

\* bulkPixelConversion(src, dst), from call to return
BulkPixelConversion ==
    /\ bulkStatus = "ready"
    /\ \E u \in IF conversionMayBeUndefined(src.format) THEN Undefined ELSE {0} :
           \E done \in {bulkPixelConversion(src, srcMem, dst, dstMem, u)} :
               /\ dstMem' = done.mem
               /\ bulkStatus' = done.status
               /\ bulkLog' = done.log
               /\ bulkCalls' = done.calls
    /\ UNCHANGED <<src, dst, srcMem>>
    /\ UNCHANGED notBulk

BulkNext == BulkPixelConversion

(***************************************************************************)
(* scale                                                                   *)
(***************************************************************************)
MaxScaleLength == 4

\* the w x h x d of an extent n along one axis and 1 along the others
Along(axis, n) == [i \in 1..3 |-> IF i = axis THEN n ELSE 1]

Volumes == Sides \X Sides \X Sides

\* the extents scaled from and to: a volume to its own size, the smallest
\* and the largest volume to each other, the largest square to the next
\* smaller one, and every length to every length along each axis
ScaleCases ==
    {<<e, e>> : e \in Volumes}
        \cup ({<<1, 1, 1>>, <<MaxSide, MaxSide, MaxSide>>}
                  \X {<<1, 1, 1>>, <<MaxSide, MaxSide, MaxSide>>})
        \cup {<<<<MaxScaleLength, MaxScaleLength, 1>>,
                 <<MaxScaleLength - 1, MaxScaleLength - 1, 1>>>>}
        \cup {<<Along(axis, s), Along(axis, d)>> :
                  axis \in 1..3, s \in 1..MaxScaleLength, d \in 1..MaxScaleLength}

\* the formats scaled, and the pairs scaled between
ScaledFormats ==
    {PF_R8, PF_R8G8, PF_R8G8B8, PF_A8R8G8B8, PF_X8R8G8B8, PF_FLOAT16_R,
     PF_FLOAT32_R, PF_FLOAT32_RGB, PF_FLOAT32_RGBA}

ScaledPairs ==
    {<<f, f>> : f \in ScaledFormats}
        \cup {<<PF_R8G8B8, PF_A8R8G8B8>>, <<PF_FLOAT32_RGB, PF_FLOAT32_RGBA>>,
              <<PF_FLOAT32_RGBA, PF_FLOAT32_RGB>>, <<PF_R8, PF_FLOAT32_R>>,
              <<PF_A8R8G8B8, PF_X8R8G8B8>>, <<PF_DXT1, PF_R8>>, <<PF_R8, PF_D16>>}

Filters == {"FILTER_NEAREST", "FILTER_BILINEAR"}

\* the padding of the source and of the destination buffer
ScalePaddings == {<<<<0, 0>>, <<0, 0>>>>, <<<<1, 0>>, <<0, 1>>>>}

\* no scaling under way
ScaleIdle ==
    /\ scaleSrc = NoPixelData
    /\ scaled = NoPixelData
    /\ scaleSrcMem = <<>>
    /\ scaledMem = <<>>
    /\ filter = "FILTER_NEAREST"
    /\ reads = {}
    /\ scaleStatus = "idle"
    /\ scaleLog = <<>>

ScaleInit ==
    /\ \E case \in ScaleCases, pair \in ScaledPairs, pad \in ScalePaddings :
           /\ scaleSrc = View(case[1][1], case[1][2], case[1][3],
                              <<0, 0, 0>>, pad[1], pair[1])
           /\ scaled = View(case[2][1], case[2][2], case[2][3],
                            <<0, 0, 0>>, pad[2], pair[2])
    /\ scaleSrcMem = SrcBuffer(scaleSrc)
    /\ scaledMem = DstBuffer(scaled)
    /\ filter \in Filters
    /\ reads = {}
    /\ scaleStatus = "ready"
    /\ scaleLog = <<>>

\* scale(src, scaled, filter), from call to return
Scale ==
    /\ scaleStatus = "ready"
    /\ \E u \in IF conversionMayBeUndefined(scaleSrc.format)
                THEN Undefined ELSE {0} :
           \E done \in {scale(scaleSrc, scaleSrcMem, scaled, scaledMem, filter, u)} :
               /\ scaledMem' = done.mem
               /\ reads' = done.reads
               /\ scaleStatus' = done.status
               /\ scaleLog' = done.log
    /\ UNCHANGED <<scaleSrc, scaleSrcMem, scaled, filter>>
    /\ UNCHANGED notScale

ScaleNext == Scale

(***************************************************************************)
(* The blend of LinearResampler_Byte                                       *)
(***************************************************************************)
\* the 12-bit weights of a pass: the ends of temp & 0xFFF, the middle and
\* what lies next to them, a third
SampleWeights == {0, 1, 2, 1365, 2047, 2048, 2049, 4094, 4095}

\* the bytes sampled
SampleBytes == {0, 1, 127, 128, 255}

\* no pass under way
BlendIdle ==
    /\ sampleWeightX = 0
    /\ sampleWeightY = 0
    /\ samples = <<0, 0, 0, 0>>
    /\ destByte = 0
    /\ blendPc = "idle"

\* the weights and the four samples are at hand
BlendInit ==
    /\ sampleWeightX \in SampleWeights
    /\ sampleWeightY \in SampleWeights
    /\ samples \in [1..4 -> SampleBytes]
    /\ destByte = 0
    /\ blendPc = "ready"

\* accum of the four samples and *destPtr = (UINT8)((accum + 0x800000) >> 24)
Blend ==
    /\ blendPc = "ready"
    /\ \E w \in {byteWeights(sampleWeightX, sampleWeightY)} :
           destByte' = roundedByte(samples, w)
    /\ blendPc' = "stored"
    /\ UNCHANGED <<sampleWeightX, sampleWeightY, samples>>
    /\ UNCHANGED notBlend

BlendNext == Blend

(***************************************************************************)
(* Specifications                                                          *)
(***************************************************************************)
\* the static data, as the loader leaves it
StaticInit == _pixelFormats = _pixelFormatsInitializer

InitCatalog == StaticInit /\ CatInit /\ CodecIdle /\ BulkIdle /\ ScaleIdle /\ BlendIdle

SpecCatalog == InitCatalog /\ [][CatNext]_vars

\* a call of getMaxMipmaps runs on: no step of it waits forever
MipFairness ==
    WF_vars(MipEnter) /\ WF_vars(MipIterate) /\ WF_vars(MipReturn)

SpecCatalogLive == SpecCatalog /\ MipFairness

InitCodec == StaticInit /\ CodecInit /\ CatIdle /\ BulkIdle /\ ScaleIdle /\ BlendIdle

SpecCodec == InitCodec /\ [][CodecNext]_vars

InitBulk == StaticInit /\ BulkInit /\ CatIdle /\ CodecIdle /\ ScaleIdle /\ BlendIdle

SpecBulk == InitBulk /\ [][BulkNext]_vars

InitScale == StaticInit /\ ScaleInit /\ CatIdle /\ CodecIdle /\ BulkIdle /\ BlendIdle

SpecScale == InitScale /\ [][ScaleNext]_vars

InitBlend ==
    StaticInit /\ BlendInit /\ CatIdle /\ CodecIdle /\ BulkIdle /\ ScaleIdle

SpecBlend == InitBlend /\ [][BlendNext]_vars

(***************************************************************************)
(* Claims about the catalog                                                *)
(***************************************************************************)
\* the least q with q * k >= n
CeilDiv(n, k) == CHOOSE q \in 0..n : q * k >= n /\ (q = 0 \/ (q - 1) * k < n)

DxtFormats == {PF_DXT1, PF_DXT2, PF_DXT3, PF_DXT4, PF_DXT5}

\* C7: getMemorySize(w,h,d,format) is w*h*d*elementBytes for an uncompressed
\* format and ceil(w/4)*ceil(h/4)*d blocks of 8 bytes (PF_DXT1) or 16 bytes
\* (PF_DXT2..PF_DXT5) for a compressed one; 4x4x1 DXT1 is 8 and 5x5x1 DXT1
\* is 32.
C7_MemorySize ==
    catPc = "memorySize" =>
        /\ ~isCompressed(argFormat) =>
               ret = argWidth * argHeight * argDepth
                           * _pixelFormats[argFormat + 1].elemBytes
        /\ argFormat = PF_DXT1 =>
               ret = CeilDiv(argWidth, 4) * CeilDiv(argHeight, 4)
                           * argDepth * 8
        /\ argFormat \in DxtFormats \ {PF_DXT1} =>
               ret = CeilDiv(argWidth, 4) * CeilDiv(argHeight, 4)
                           * argDepth * 16
        /\ (argFormat = PF_DXT1 /\ argWidth = 4 /\ argHeight = 4 /\ argDepth = 1)
               => ret = 8
        /\ (argFormat = PF_DXT1 /\ argWidth = 5 /\ argHeight = 5 /\ argDepth = 1)
               => ret = 32

C7_Witness ==
    /\ catPc = "memorySize"
    /\ argFormat = PF_DXT1 /\ argWidth = 5 /\ argHeight = 5 /\ argDepth = 1
    /\ ret = 32

\* C8: isValidExtent holds of a compressed format exactly when width and
\* height are multiples of 4 and depth is 1, and of every uncompressed
\* format whatever the extent; DXT1 rejects 5x4 and accepts 8x4.
C8_ValidExtent ==
    catPc = "validExtent" =>
        /\ isCompressed(argFormat) =>
               (valid <=> (argWidth % 4 = 0 /\ argHeight % 4 = 0 /\ argDepth = 1))
        /\ ~isCompressed(argFormat) => valid
        /\ (argFormat = PF_DXT1 /\ argWidth = 5 /\ argHeight = 4 /\ argDepth = 1)
               => ~valid
        /\ (argFormat = PF_DXT1 /\ argWidth = 8 /\ argHeight = 4 /\ argDepth = 1)
               => valid

C8_Witness ==
    /\ catPc = "validExtent"
    /\ argFormat = PF_DXT1 /\ argWidth = 8 /\ argHeight = 4 /\ argDepth = 2
    /\ ~valid

\* the halvings (floor, clamped at 1) until width, height and depth are all 1
RECURSIVE Halvings(_, _, _)
Halvings(w, h, d) ==
    IF w = 1 /\ h = 1 /\ d = 1 THEN 0
    ELSE 1 + Halvings(IF w > 1 THEN w \div 2 ELSE w,
                      IF h > 1 THEN h \div 2 ELSE h,
                      IF d > 1 THEN d \div 2 ELSE d)

\* C9: for all width, height, depth >= 1 getMaxMipmaps returns the number of
\* halvings needed until the three are 1 (8 for 256x256x1).
C9_MaxMipmapsIsHalvings ==
    (catPc = "maxMipmaps" /\ argWidth >= 1 /\ argHeight >= 1 /\ argDepth >= 1)
        => ret = Halvings(argWidth, argHeight, argDepth)

\* C10: in the format table every native-endian format has, for each of R,
\* G, B, A, mask = (2^bits - 1) << shift, and every compressed or depth
\* format has zero masks and zero shifts.
C10_MaskIsBitsShifted ==
    catPc = "described" =>
        LET Consistent(bits, mask, shift) ==
                mask = BitShl(Bits(2^bits - 1), shift)
        IN  /\ "PFF_NATIVEENDIAN" \in des.flags =>
                   /\ Consistent(des.rbits, des.rmask, des.rshift)
                   /\ Consistent(des.gbits, des.gmask, des.gshift)
                   /\ Consistent(des.bbits, des.bmask, des.bshift)
                   /\ Consistent(des.abits, des.amask, des.ashift)
            /\ ("PFF_COMPRESSED" \in des.flags \/ "PFF_DEPTH" \in des.flags) =>
                   /\ des.rmask = {} /\ des.gmask = {}
                   /\ des.bmask = {} /\ des.amask = {}
                   /\ des.rshift = 0 /\ des.gshift = 0
                   /\ des.bshift = 0 /\ des.ashift = 0

\* the format has neither the compressed flag nor the depth flag
NeitherCompressedNorDepth(fmt) ==
    /\ "PFF_COMPRESSED" \notin getFlags(fmt)
    /\ "PFF_DEPTH" \notin getFlags(fmt)

\* C11, as stated: for every format of the enumeration, isAccessible is true
\* if and only if the format has neither the compressed nor the depth flag
C11_AccessibleIffFlags ==
    catPc = "accessible" => (valid <=> NeitherCompressedNorDepth(argFormat))

\* C11, amended: isAccessible(PF_UNKNOWN) is false, and for every other
\* format of the enumeration isAccessible is true if and only if the format
\* has neither the compressed nor the depth flag
C11_AccessibleIffFlagsButUnknown ==
    catPc = "accessible" =>
        IF argFormat = PF_UNKNOWN THEN ~valid
        ELSE valid <=> NeitherCompressedNorDepth(argFormat)

\* isAccessible has refused a depth format
C11_Witness ==
    /\ catPc = "accessible"
    /\ "PFF_DEPTH" \in getFlags(argFormat)
    /\ ~valid

\* getDescriptionFor returned the entry of an accessible format
AccessibleDescribed == catPc = "described" /\ isAccessible(argFormat)

\* C27: for every accessible format the has-alpha flag is set if and only if
\* the format's alpha bit width is greater than 0, so that pack and unpack
\* never process an alpha channel of width 0 as a stored channel.
C27_AlphaFlagIffAlphaBits ==
    AccessibleDescribed => ("PFF_HASALPHA" \in des.flags <=> des.abits > 0)

\* getMaxMipmaps is in its loop or past it
MipRunning == catPc \in {"mipBody", "mipReturn"}

\* C26: getMaxMipmaps terminates and returns a finite count for every
\* combination of width, height and depth values, including when any of
\* them is 0.
C26_MaxMipmapsReturns == MipRunning ~> (catPc = "maxMipmaps")

\* the loop body leaves width, height and depth as they are and the exit
\* test fails: the pass repeats for ever
MipLoopStuck ==
    /\ catPc = "mipBody"
    /\ MipHalve(width) = width /\ MipHalve(height) = height
    /\ MipHalve(depth) = depth
    /\ ~MipLoopExit(width, height, depth)

(***************************************************************************)
(* Claims about the colour codec                                          *)
(***************************************************************************)
Channels == {"r", "g", "b", "a"}

ChannelBits(fmt, ch) ==
    LET d == getDescriptionFor(fmt)
    IN  IF ch = "r" THEN d.rbits ELSE IF ch = "g" THEN d.gbits
        ELSE IF ch = "b" THEN d.bbits ELSE d.abits

\* the channels a format stores
StoredChannels(fmt) == {ch \in Channels : ChannelBits(fmt, ch) > 0}

EightBitFormats ==
    {fmt \in PixelFormat : isAccessible(fmt) /\ getElementType(fmt) = "PCT_BYTE"}

HalfFormats ==
    {fmt \in PixelFormat : isAccessible(fmt) /\ getElementType(fmt) = "PCT_FLOAT16"}

\* C1: for every 8-bit-per-channel accessible format and every byte value of
\* a channel the format stores, the byte overload of unpackColor applied to
\* what the byte overload of packColor wrote returns exactly that value.
C1_ByteRoundTrip ==
    (packedBy = "byte" /\ unpackedBy # "none" /\ format \in EightBitFormats) =>
        /\ unpackedBy \in {"byte", "float"}
        /\ unpackedBy = "byte" =>
               \A ch \in StoredChannels(format) : bytesOut[ch] = bytesIn[ch]

C1_Witness ==
    /\ packedBy = "byte" /\ unpackedBy = "byte"
    /\ format = PF_B8G8R8A8
    /\ bytesIn = [r |-> 200, g |-> 55, b |-> 8, a |-> 72]
    /\ bytesOut = bytesIn

\* |a - b| * factor <= 1, computed exactly
ErrorWithin(a, b, factor) ==
    LET e == IF a.x < b.x THEN a.x ELSE b.x
        A == BShl(BFromNat(a.m), a.x - e)
        B == BShl(BFromNat(b.m), b.x - e)
        d == IF BLess(A, B) THEN BSub(B, A) ELSE BSub(A, B)
    IN  /\ a.k = "num" /\ b.k = "num"
        /\ BLeq(BMulNat(d, factor), BShl(BOne, 0 - e))

\* |a - b| <= 1/(2^bits - 1), computed exactly
WithinQuantum(a, b, bits) ==
    LET e == IF a.x < b.x THEN a.x ELSE b.x
        A == BShl(BFromNat(a.m), a.x - e)
        B == BShl(BFromNat(b.m), b.x - e)
        d == IF BLess(A, B) THEN BSub(B, A) ELSE BSub(A, B)
    IN  /\ a.k = "num" /\ b.k = "num"
        /\ BLeq(BSub(BShl(d, bits), d), BShl(BOne, 0 - e))

\* C2, as the specification states it: for every accessible format and every
\* colour with components in [0,1], unpackColor of what packColor wrote
\* reproduces each stored channel within 1/(2^bitwidth - 1).
C2_FloatRoundTrip ==
    (packedBy = "float" /\ unpackedBy = "float") =>
        \A ch \in StoredChannels(format) :
            WithinQuantum(colorOut[ch], colorIn[ch], ChannelBits(format, ch))

\* C2, amended: the bound 1/(2^bitwidth - 1) holds of every accessible
\* format but the half-float ones, whose channels come back within 2^-11.
C2_FloatRoundTripButHalf ==
    (packedBy = "float" /\ unpackedBy = "float") =>
        \A ch \in StoredChannels(format) :
            IF format \in HalfFormats
            THEN ErrorWithin(colorOut[ch], colorIn[ch], 2^11)
            ELSE WithinQuantum(colorOut[ch], colorIn[ch], ChannelBits(format, ch))

C2_Witness ==
    /\ packedBy = "float" /\ unpackedBy = "float"
    /\ format = PF_R8G8B8A8
    /\ colorIn.r = Level(LevelCount \div 3)
    /\ colorOut.r # colorIn.r

\* a half-float channel that comes back further off than 1/(2^16 - 1)
C2_HalfWitness ==
    /\ packedBy = "float" /\ unpackedBy = "float"
    /\ format = PF_FLOAT16_RGBA
    /\ ~WithinQuantum(colorOut.r, colorIn.r, ChannelBits(format, "r"))

OpaqueThreeChannel ==
    {fmt \in PixelFormat :
        /\ isAccessible(fmt)
        /\ getNumElements(fmt) = 3
        /\ ChannelBits(fmt, "a") = 0}

\* C3: unpacking any pixel of a 3-channel opaque format (component count 3,
\* alpha width 0, the X8-prefixed and X8-suffixed ones included) yields
\* alpha 255 from the byte overload and 1.0 from the float overload, whatever
\* the pixel holds.
C3_OpaqueAlpha ==
    (unpackedBy # "none" /\ format \in OpaqueThreeChannel) =>
        /\ unpackedBy \in {"byte", "float"}
        /\ unpackedBy = "byte" => bytesOut.a = 255
        /\ unpackedBy = "float" => colorOut.a = FOne

\* the formats packColor and unpackColor handle case by case
HandCodedFormats ==
    {PF_FLOAT16_R, PF_FLOAT16_RG, PF_FLOAT16_RGB, PF_FLOAT16_RGBA,
     PF_FLOAT32_R, PF_FLOAT32_RG, PF_FLOAT32_RGB, PF_FLOAT32_RGBA,
     PF_R8, PF_R8G8}

\* the format is neither native-endian-packed nor hand-coded
NoCodecPath(fmt) ==
    "PFF_NATIVEENDIAN" \notin getFlags(fmt) /\ fmt \notin HandCodedFormats

\* C18: for every format that is neither native-endian-packed nor one of
\* the hand-coded formats, packColor and unpackColor raise
\* NotImplementedException and write nothing to the destination bytes or to
\* the output colour.
C18_NotImplementedWritesNothing ==
    NoCodecPath(format) =>
        /\ packedBy \notin {"idle", "none"} =>
               packedBy = "NotImplementedException" /\ pixel = ZeroPixel(format)
        /\ unpackedBy \notin {"idle", "none"} =>
               /\ unpackedBy = "NotImplementedException"
               /\ colorOut = NoFloatColor /\ bytesOut = NoByteColor

\* packColor refused a depth format
C18_Witness ==
    /\ NoCodecPath(format) /\ "PFF_DEPTH" \in getFlags(format)
    /\ packedBy = "NotImplementedException"
    /\ bytesIn.r = 255

\* unpackColor refused a compressed format
C18_UnpackWitness ==
    /\ NoCodecPath(format) /\ "PFF_COMPRESSED" \in getFlags(format)
    /\ unpackedBy = "NotImplementedException"

\* neither packColor nor unpackColor, neither bulkPixelConversion nor scale
\* ended with the not-implemented error
NoneNotImplemented ==
    /\ packedBy # "NotImplementedException"
    /\ unpackedBy # "NotImplementedException"
    /\ bulkStatus # "NotImplementedException"
    /\ scaleStatus # "NotImplementedException"

\* the formats of the call under way, of whichever operation it is
FormatsInUse ==
    (IF packedBy # "idle" THEN {format} ELSE {})
        \cup (IF bulkStatus # "idle" THEN {src.format, dst.format} ELSE {})
        \cup (IF scaleStatus # "idle" THEN {scaleSrc.format, scaled.format} ELSE {})

\* C28: every format for which isAccessible is true is either
\* native-endian-packed or has a hand-coded case in both packColor and
\* unpackColor, so a scale call whose accessibility assertions pass, and a
\* bulkPixelConversion between two accessible formats, never raises a
\* not-implemented error.
C28_AccessibleHasCodecPath ==
    /\ \A fmt \in PixelFormat : isAccessible(fmt) => ~NoCodecPath(fmt)
    /\ (\A fmt \in FormatsInUse : isAccessible(fmt)) => NoneNotImplemented

\* a hand-coded format that is not native-endian-packed was packed and
\* unpacked
C28_Witness ==
    /\ isAccessible(format) /\ "PFF_NATIVEENDIAN" \notin getFlags(format)
    /\ format = PF_FLOAT16_RG
    /\ packedBy = "float" /\ unpackedBy = "float"
    /\ colorOut.r # FZero

\* the formats of one and of two channels that unpackColor handles
FewChannelFormats ==
    {PF_R8, PF_R8G8, PF_FLOAT16_R, PF_FLOAT16_RG, PF_FLOAT32_R, PF_FLOAT32_RG}

\* unpackColor(float*, ...) returned the colour of a pixel of such a format
FewChannelsUnpacked == unpackedBy = "float" /\ format \in FewChannelFormats

\* the colour channels the format does not store are 0, alpha is 1.0
MissingChannelsDefault ==
    /\ \A ch \in {"g", "b"} :
           ChannelBits(format, ch) = 0 => colorOut[ch] = FZero
    /\ colorOut.a = FOne

\* C23: unpacking a pixel of a format that stores fewer than four channels
\* yields 0 for every colour channel (G, B) the format does not store and 1.0
\* for alpha when the format has no alpha channel, for the half-float and
\* full-float one- and two-channel formats as well as PF_R8 and PF_R8G8.
C23_MissingChannelsDefault == FewChannelsUnpacked => MissingChannelsDefault

ChannelMask(fmt, ch) ==
    LET d == getDescriptionFor(fmt)
    IN  IF ch = "r" THEN d.rmask ELSE IF ch = "g" THEN d.gmask
        ELSE IF ch = "b" THEN d.bmask ELSE d.amask

NativeEndianFormats ==
    {fmt \in PixelFormat : "PFF_NATIVEENDIAN" \in getDescriptionFor(fmt).flags}

\* the bits of an element of the format
ElementBits(fmt) == 0..(getNumElemBytes(fmt) * 8 - 1)

MasksDisjoint(fmt) ==
    \A c1 \in Channels : \A c2 \in Channels \ {c1} :
        ChannelMask(fmt, c1) \cap ChannelMask(fmt, c2) = {}

MasksWithinElement(fmt) ==
    \A ch \in Channels : ChannelMask(fmt, ch) \subseteq ElementBits(fmt)

WidthsFit(fmt) ==
    LET d == getDescriptionFor(fmt)
    IN  d.rbits + d.gbits + d.bbits + d.abits <= d.elemBytes * 8

\* the pixel packColor writes when channel ch of the colour is v instead
Repacked(ch, v) ==
    LET c == [bytesIn EXCEPT ![ch] = v]
    IN  packColorByte(c.r, c.g, c.b, c.a, format, 0).px

\* whatever channel ch holds, the written pixel is the same outside the
\* channel's mask and as long as the element
OthersUntouched(ch) ==
    \A v \in {0, 255, 255 - bytesIn[ch]} :
        \E q \in {Repacked(ch, v)} :
            /\ Len(q) = Len(pixel)
            /\ intRead(q) \ ChannelMask(format, ch)
                   = intRead(pixel) \ ChannelMask(format, ch)

NativeBytePacked == packedBy = "byte" /\ format \in NativeEndianFormats

\* C30: for every native-endian packed format the four channel masks are
\* pairwise disjoint and lie within the low elemBytes * 8 bits, and the four
\* channel widths sum to at most elemBytes * 8; so what packColor writes for
\* one channel leaves the bits of the other channels as they are, and the
\* pixel written is exactly elemBytes bytes.
C30_ChannelsDoNotOverlap ==
    NativeBytePacked =>
        /\ MasksDisjoint(format)
        /\ MasksWithinElement(format)
        /\ WidthsFit(format)
        /\ Len(pixel) = getNumElemBytes(format)
        /\ intRead(pixel) \subseteq ElementBits(format)
        /\ \A ch \in Channels : OthersUntouched(ch)

\* PF_R8G8B8X8 packed: its alpha term is shifted by 0, onto the red bits,
\* and masked away
C30_Witness ==
    /\ packedBy = "byte"
    /\ format = PF_R8G8B8X8
    /\ bytesIn = [r |-> 200, g |-> 55, b |-> 8, a |-> 72]
    /\ pixel = <<200, 55, 8, 0>>

(***************************************************************************)
(* Claims about bulkPixelConversion                                        *)
(***************************************************************************)
\* the element and the cell within it that cell i of pd's buffer belongs to
CellX(pd, i) == (((i - 1) \div CellsPerPixel(pd.format)) % pd.slicePitch) % pd.rowPitch

CellY(pd, i) == (((i - 1) \div CellsPerPixel(pd.format)) % pd.slicePitch) \div pd.rowPitch

CellZ(pd, i) == ((i - 1) \div CellsPerPixel(pd.format)) \div pd.slicePitch

CellPart(pd, i) == (i - 1) % CellsPerPixel(pd.format)

\* whether cell i of pd's buffer lies in the box pd addresses
InRegion(pd, i) ==
    /\ pd.left <= CellX(pd, i) /\ CellX(pd, i) < pd.right
    /\ pd.top <= CellY(pd, i) /\ CellY(pd, i) < pd.bottom
    /\ pd.front <= CellZ(pd, i) /\ CellZ(pd, i) < pd.back

\* the cell of the source buffer that corresponds to cell i of the
\* destination's region
SourceCell(i) ==
    ((CellX(dst, i) - dst.left + src.left)
        + (CellY(dst, i) - dst.top + src.top) * src.rowPitch
        + (CellZ(dst, i) - dst.front + src.front) * src.slicePitch)
      * CellsPerPixel(src.format) + CellPart(dst, i) + 1

SameExtents ==
    /\ getWidth(src) = getWidth(dst)
    /\ getHeight(src) = getHeight(dst)
    /\ getDepth(src) = getDepth(dst)

\* the call was a copy between identical uncompressed formats and extents
CopyCalled ==
    /\ bulkStatus \notin {"idle", "ready"}
    /\ src.format = dst.format /\ ~isCompressed(src.format)
    /\ SameExtents

\* the destination's region holds the source's region and the rest of the
\* destination buffer holds what it held before the call
ExactCopy ==
    /\ bulkStatus = "ok"
    /\ \A i \in 1..Len(dstMem) :
           dstMem[i] = IF InRegion(dst, i) THEN srcMem[SourceCell(i)]
                       ELSE DstCell(dst.format, i)

\* C4: bulkPixelConversion between identical uncompressed formats and
\* identical extents leaves every byte of the addressed destination region
\* equal to the corresponding source byte and every destination byte outside
\* the region unchanged, for consecutive and for padded buffers.
C4_ExactCopy == CopyCalled => ExactCopy

BulkReturned == bulkStatus \notin {"idle", "ready"}

\* the call had a compressed format on either side
CompressedCalled ==
    BulkReturned /\ (isCompressed(src.format) \/ isCompressed(dst.format))

\* the call took one step, a memcpy of the source's consecutive size, and
\* the destination buffer holds what that memcpy leaves
OneContiguousCopy ==
    /\ Len(bulkLog) = 1
    /\ bulkLog[1].op = "memcpy"
    /\ bulkLog[1].n * CellBytes(src.format) = getConsecutiveSize(src)
    /\ \A i \in 1..Len(dstMem) :
           dstMem[i] = IF i <= bulkLog[1].n THEN srcMem[i]
                       ELSE DstCell(dst.format, i)

\* the call took no step and the destination buffer holds what it held
NothingCopied == bulkLog = <<>> /\ dstMem = DstBuffer(dst)

\* C12: bulkPixelConversion with a compressed source or destination format
\* succeeds only when both formats are equal, and then performs exactly one
\* contiguous copy of the source's consecutive size; when the formats differ
\* it raises NotImplementedException (the extents being equal, as the
\* function's assertion demands) and copies nothing.
C12_CompressedCopyOrRefusal ==
    CompressedCalled =>
        /\ bulkStatus = "ok" => (src.format = dst.format /\ OneContiguousCopy)
        /\ (src.format = dst.format /\ SameExtents) => bulkStatus = "ok"
        /\ src.format # dst.format =>
               /\ NothingCopied
               /\ SameExtents => bulkStatus = "NotImplementedException"

\* a compressed buffer of more than one block was copied onto another
C12_Witness ==
    /\ CompressedCalled /\ bulkStatus = "ok"
    /\ src.format = PF_DXT1 /\ getDepth(src) = MaxSide
    /\ bulkLog[1].n = 8 * MaxSide

\* a conversion out of a compressed format was refused
C12_RefusedWitness ==
    /\ CompressedCalled /\ bulkStatus = "NotImplementedException"
    /\ src.format = PF_DXT1 /\ dst.format = PF_R8

\* the ways a call fails: an assertion, or a not-implemented error
Failures == {"assert", "NotImplementedException"}

\* step k of the log wrote cell i of the destination buffer
Wrote(log, k, i) ==
    /\ log[k].op \in {"memcpy", "memcpyRow", "packColor"}
    /\ log[k].dstptr < i /\ i <= log[k].dstptr + log[k].n

\* a failed conversion left the destination buffer as it was
BulkFailedClean == bulkStatus \in Failures => dstMem = DstBuffer(dst)

\* a conversion that returned has written every cell of the region dst
\* addresses
BulkProcessedAll ==
    bulkStatus = "ok" =>
        \A i \in 1..Len(dstMem) :
            InRegion(dst, i) => \E k \in 1..Len(bulkLog) : Wrote(bulkLog, k, i)

\* a failed scale left the destination buffer as it was
ScaleFailedClean == scaleStatus \in Failures => scaledMem = DstBuffer(scaled)

\* C13: a bulkPixelConversion or scale call that fails (an assertion or a
\* not-implemented error) leaves every byte of the destination buffer
\* unchanged, and a call that does not fail has processed every pixel of the
\* addressed region.
C13_AllOrNothing == BulkFailedClean /\ BulkProcessedAll /\ ScaleFailedClean

\* the call converted into PF_X8R8G8B8 or PF_X8B8G8R8 from another
\* uncompressed format
ToX8Called ==
    /\ BulkReturned /\ SameExtents
    /\ dst.format \in X8Formats /\ src.format # dst.format
    /\ ~isCompressed(src.format)

\* dst, described under the alpha-bearing format
AsAlpha(pd) == [pd EXCEPT !.format = tempFormat(pd.format)]

\* C14: bulkPixelConversion into PF_X8R8G8B8 (or PF_X8B8G8R8) from a
\* different format writes into dst's own memory exactly the bytes that
\* converting src to PF_A8R8G8B8 (resp. PF_A8B8G8R8) produces: the
\* destination buffer is re-described, not replaced by another buffer.
C14_WritesAsAlphaFormat ==
    ToX8Called =>
        \E ref \in {bulkPixelConversion(src, srcMem, AsAlpha(dst),
                                        DstBuffer(dst), 0)} :
            /\ bulkStatus = ref.status
            /\ dstMem = ref.mem

\* the call converted out of PF_X8R8G8B8 or PF_X8B8G8R8 into a format
\* without alpha
FromX8Called ==
    /\ BulkReturned /\ SameExtents
    /\ src.format \in X8Formats /\ dst.format \notin X8Formats
    /\ ~hasAlpha(dst.format) /\ ~isCompressed(dst.format)

\* where the steps of a log read the source
SourceOffsets(log) == [k \in 1..Len(log) |-> log[k].srcptr]

\* C15: bulkPixelConversion out of PF_X8R8G8B8 or PF_X8B8G8R8 into a format
\* without alpha reads the same source pixels, at the same offsets (by the
\* source's left/top/front, row pitch and slice pitch), as the general
\* per-pixel path, and produces the same destination contents.
C15_ReadsAsGeneralPath ==
    FromX8Called =>
        \E ref \in {convertPixels(src, srcMem, dst,
                                  LoopStart(src, dst, DstBuffer(dst)), 0)} :
            /\ bulkStatus = ref.status
            /\ SourceOffsets(bulkLog) = SourceOffsets(ref.log)
            /\ dstMem = ref.mem

\* the call took the general path: two different uncompressed formats and
\* neither shortcut
GeneralCalled ==
    /\ BulkReturned /\ SameExtents
    /\ src.format # dst.format
    /\ ~isCompressed(src.format) /\ ~isCompressed(dst.format)
    /\ dst.format \notin X8Formats
    /\ ~(src.format \in X8Formats /\ ~hasAlpha(dst.format))

\* the k-th pixel of the region src addresses, counting from 0 along x,
\* then y, then z
RegionPixel(pd, k) ==
    [x |-> pd.left + (k % getWidth(pd)),
     y |-> pd.top + ((k \div getWidth(pd)) % getHeight(pd)),
     z |-> pd.front + (k \div (getWidth(pd) * getHeight(pd)))]

\* step j of the log is op on pixel c
StepIs(log, j, op, c) ==
    /\ log[j].op = op
    /\ log[j].x = c.x /\ log[j].y = c.y /\ log[j].z = c.z

\* C19: the general path of bulkPixelConversion processes every pixel of
\* the addressed region exactly once, z from front to back, then y from top
\* to bottom, then x from left to right, each step being one unpack of the
\* source pixel followed by one pack into the destination pixel.
C19_GeneralPathOrder ==
    (GeneralCalled /\ bulkStatus = "ok") =>
        /\ Len(bulkLog) = 2 * Passes(src)
        /\ \A k \in 0..(Passes(src) - 1) :
               /\ StepIs(bulkLog, 2 * k + 1, "unpackColor", RegionPixel(src, k))
               /\ StepIs(bulkLog, 2 * k + 2, "packColor", RegionPixel(src, k))

\* the general path converted a box of the largest extents that lies off
\* the origin of a padded buffer
C19_Witness ==
    /\ GeneralCalled /\ bulkStatus = "ok"
    /\ Passes(src) = MaxSide * MaxSide * MaxSide
    /\ src.left = 1 /\ src.top = 1 /\ src.front = 1
    /\ getRowSkip(dst) > 0
    /\ Len(bulkLog) = 2 * Passes(src)

\* the call copied row by row: one uncompressed format on both sides, a
\* side not consecutive
RowCopyCalled ==
    /\ BulkReturned /\ SameExtents
    /\ src.format = dst.format /\ ~isCompressed(src.format)
    /\ ~(isConsecutive(src) /\ isConsecutive(dst))

\* the byte offset of pixel <<x, y, z>> in pd's buffer
ByteOffset(pd, x, y, z) ==
    (x + y * pd.rowPitch + z * pd.slicePitch) * getNumElemBytes(pd.format)

\* where a step's pointers stood, in bytes
SrcPtrBytes(step) == step.srcptr * CellBytes(src.format)

DstPtrBytes(step) == step.dstptr * CellBytes(dst.format)

\* C20, as stated: in the row-copy path and in the general path, when pixel
\* (x,y,z) of the region is processed the source pointer is at byte offset
\* (x + y*rowPitch + z*slicePitch)*elementSize of the source buffer and the
\* destination pointer at the same expression with the destination's pitches
\* and element size.
C20_PointersAtPixel ==
    (RowCopyCalled \/ GeneralCalled) =>
        \A j \in 1..Len(bulkLog) :
            /\ SrcPtrBytes(bulkLog[j])
                   = ByteOffset(src, bulkLog[j].x, bulkLog[j].y, bulkLog[j].z)
            /\ DstPtrBytes(bulkLog[j])
                   = ByteOffset(dst, bulkLog[j].x, bulkLog[j].y, bulkLog[j].z)

\* C20, amended: when pixel (x,y,z) of the source's region is processed the
\* source pointer is at byte offset (x + y*rowPitch + z*slicePitch)*elementSize
\* of the source buffer, and the destination pointer is at that expression
\* with the destination's pitches and element size for the pixel of the
\* destination's region that corresponds to it,
\* (x - src.left + dst.left, y - src.top + dst.top, z - src.front + dst.front).
C20_PointersAtCorrespondingPixel ==
    (RowCopyCalled \/ GeneralCalled) =>
        \A j \in 1..Len(bulkLog) :
            /\ SrcPtrBytes(bulkLog[j])
                   = ByteOffset(src, bulkLog[j].x, bulkLog[j].y, bulkLog[j].z)
            /\ DstPtrBytes(bulkLog[j])
                   = ByteOffset(dst, bulkLog[j].x - src.left + dst.left,
                                bulkLog[j].y - src.top + dst.top,
                                bulkLog[j].z - src.front + dst.front)

\* rows of several padded slices were copied between boxes that lie at
\* different places of their buffers
C20_Witness ==
    /\ RowCopyCalled /\ bulkStatus = "ok"
    /\ getHeight(src) = MaxSide /\ getDepth(src) = MaxSide
    /\ getSliceSkip(src) > 0 /\ getRowSkip(dst) > 0
    /\ src.front = 1 /\ dst.front = 0
    /\ Len(bulkLog) = MaxSide * MaxSide

\* the calls bulkPixelConversion made of itself, the outermost one left out
DelegatedCalls == Len(bulkCalls) - 1

\* no two of the calls under way were entered with the same pair of formats
NoCallReentered ==
    \A i \in 1..Len(bulkCalls) : \A j \in 1..Len(bulkCalls) :
        i # j => bulkCalls[i] # bulkCalls[j]

\* C29: the self-delegation of bulkPixelConversion through the X8-to-A8
\* substitutions ends.  For every pair of source and destination formats the
\* call returns, the calls it made of itself nest at most 2 deep, and none of
\* them was entered with a pair of formats that was already under way.
C29_DelegationEnds ==
    BulkReturned =>
        /\ bulkStatus # "stack overflow"
        /\ Len(bulkCalls) >= 1
        /\ bulkCalls[1] = <<src.format, dst.format>>
        /\ DelegatedCalls <= 2
        /\ NoCallReentered

\* a conversion between the two PF_X8 formats delegated to the pair
\* (PF_X8R8G8B8, PF_A8B8G8R8)
C29_Witness ==
    /\ BulkReturned
    /\ bulkCalls = << <<PF_X8R8G8B8, PF_X8B8G8R8>>,
                      <<PF_X8R8G8B8, PF_A8B8G8R8>> >>

\* a PF_X8 source converted to a format without alpha delegated to the
\* alpha-bearing source format
C29_SourceWitness ==
    /\ BulkReturned
    /\ bulkCalls = << <<PF_X8B8G8R8, PF_R8G8B8>>,
                      <<PF_A8B8G8R8, PF_R8G8B8>> >>

(***************************************************************************)
(* Claims about scale                                                      *)
(***************************************************************************)
ScaleReturned == scaleStatus \notin {"idle", "ready"}

\* the cells of pixel <<x, y, z>> of the box pd addresses
PixelCells(pd, mem, x, y, z) ==
    [i \in 1..CellsPerPixel(pd.format) |->
        mem[((pd.left + x) + (pd.top + y) * pd.rowPitch
                + (pd.front + z) * pd.slicePitch) * CellsPerPixel(pd.format) + i]]

\* scaled has the pixels of scaleSrc
SamePixels ==
    \A x \in 0..(getWidth(scaled) - 1), y \in 0..(getHeight(scaled) - 1),
       z \in 0..(getDepth(scaled) - 1) :
        PixelCells(scaled, scaledMem, x, y, z)
            = PixelCells(scaleSrc, scaleSrcMem, x, y, z)

\* the call scaled a buffer of an accessible format to its own size and
\* format
SameSizeScaled ==
    /\ ScaleReturned
    /\ scaleSrc.format = scaled.format /\ isAccessible(scaled.format)
    /\ getWidth(scaleSrc) = getWidth(scaled)
    /\ getHeight(scaleSrc) = getHeight(scaled)
    /\ getDepth(scaleSrc) = getDepth(scaled)

\* C5: scale to the same width, height, depth and format leaves the
\* destination's pixels exactly equal to the source's, for the nearest and
\* for the bilinear filter, for every accessible format.
C5_SameSizeIdentity == SameSizeScaled => (scaleStatus = "ok" /\ SamePixels)

\* the steps of the log that are calls of op
StepsOf(log, op) == {k \in 1..Len(log) : log[k].op = op}

\* scale came back to its caller, normally or with a failure
ScaleCameBack == scaleStatus \in {"ok"} \cup Failures

\* C16: during scale a temporary buffer is allocated only when the source
\* and destination formats differ, every temporary buffer allocated is
\* released before scale returns, and scale never releases the caller's
\* source or destination buffer.
C16_TemporaryIsScoped ==
    /\ ScaleReturned =>
           /\ StepsOf(scaleLog, "allocateInternalBuffer") # {} =>
                  scaleSrc.format # scaled.format
           /\ \A k \in 1..Len(scaleLog) :
                  scaleLog[k].op \in {"allocateInternalBuffer", "freeInternalBuffer"}
                      => scaleLog[k].buffer = "temp"
    /\ ScaleCameBack =>
           \A k \in StepsOf(scaleLog, "allocateInternalBuffer") :
               \E j \in StepsOf(scaleLog, "freeInternalBuffer") : j > k

\* the byte kernel scaled into a temporary buffer that was released
C16_Witness ==
    /\ scaleStatus = "ok" /\ filter = "FILTER_BILINEAR"
    /\ scaleSrc.format = PF_R8G8B8 /\ scaled.format = PF_A8R8G8B8
    /\ getWidth(scaled) = MaxScaleLength
    /\ Len(scaleLog) = 4
    /\ scaleLog[1].op = "allocateInternalBuffer"
    /\ scaleLog[4].op = "freeInternalBuffer"

\* the call scaled between two different accessible formats with the
\* nearest filter
NearestConverting ==
    /\ ScaleReturned /\ filter = "FILTER_NEAREST"
    /\ isAccessible(scaleSrc.format) /\ isAccessible(scaled.format)
    /\ scaleSrc.format # scaled.format

\* the four steps in their order, each on its buffer, scaled's buffer
\* changing in the conversion step alone
NearestSteps ==
    /\ Len(scaleLog) = 4
    /\ scaleLog[1].op = "allocateInternalBuffer" /\ scaleLog[1].buffer = "temp"
    /\ scaleLog[2].op = "NearestResampler" /\ scaleLog[2].buffer = "temp"
    /\ scaleLog[3].op = "bulkPixelConversion" /\ scaleLog[3].buffer = "scaled"
    /\ scaleLog[4].op = "freeInternalBuffer" /\ scaleLog[4].buffer = "temp"
    /\ scaleLog[1].scaled = DstBuffer(scaled)
    /\ scaleLog[2].scaled = DstBuffer(scaled)
    /\ scaleLog[3].scaled = scaledMem
    /\ scaleLog[4].scaled = scaledMem

\* the temporary has the source's format and the destination's resolution
TempAsClaimed ==
    /\ tempFor(scaleSrc, scaled).format = scaleSrc.format
    /\ getWidth(tempFor(scaleSrc, scaled)) = getWidth(scaled)
    /\ getHeight(tempFor(scaleSrc, scaled)) = getHeight(scaled)
    /\ getDepth(tempFor(scaleSrc, scaled)) = getDepth(scaled)

\* C17: scale with the nearest filter and differing formats allocates a
\* temporary buffer in the source format at the destination resolution,
\* resamples the source into it, runs bulkPixelConversion from the temporary
\* to the destination and releases the temporary, in this order; the
\* destination is written only by the conversion step.
C17_NearestThroughTemporary ==
    NearestConverting =>
        scaleStatus = "ok" /\ TempAsClaimed /\ NearestSteps /\ scaledMem # DstBuffer(scaled)

\* C6: in every resampling kernel, for all source and destination extents
\* of at least 1 on each axis, every source coordinate read (first and second
\* sample) lies in [0, S-1]; a 1x1 source is only ever read at offset 0.
C6_ReadsInBounds ==
    ScaleReturned =>
        /\ \A c \in reads :
               /\ c[1] \in 0..(getWidth(scaleSrc) - 1)
               /\ c[2] \in 0..(getHeight(scaleSrc) - 1)
               /\ c[3] \in 0..(getDepth(scaleSrc) - 1)
        /\ (getWidth(scaleSrc) = 1 /\ getHeight(scaleSrc) = 1
               /\ getDepth(scaleSrc) = 1) =>
               \A c \in reads : sourceOffset(scaleSrc, c) = 0

\* the generic bilinear kernel enlarged a row and read its last pixel as a
\* second sample
C6_Witness ==
    /\ scaleStatus = "ok" /\ filter = "FILTER_BILINEAR"
    /\ scaleSrc.format = PF_FLOAT32_R
    /\ getWidth(scaleSrc) = MaxScaleLength - 1
    /\ getWidth(scaled) = MaxScaleLength
    /\ <<MaxScaleLength - 2, 0, 0>> \in reads

\* the call ran the kernel named on 2D buffers and returned
KernelCalled2D(kernel) ==
    /\ scaleStatus = "ok" /\ filter = "FILTER_BILINEAR"
    /\ getDepth(scaleSrc) = 1 /\ getDepth(scaled) = 1
    /\ StepsOf(scaleLog, kernel) # {}

\* what LinearResampler::scale leaves in the destination for the same
\* source, destination and formats
GenericPixels(u) ==
    LinearResampler(scaleSrc, scaleSrcMem, scaled, DstBuffer(scaled), u).mem

\* the values the undefined conversions of a call may yield
UndefinedOf(fmt) == IF conversionMayBeUndefined(fmt) THEN Undefined ELSE {0}

\* the destination is what the generic kernel would have left
MatchesGeneric ==
    \E u \in UndefinedOf(scaleSrc.format) :
        \E generic \in {GenericPixels(u)} : scaledMem = generic

ByteMatchesGeneric == KernelCalled2D("LinearResampler_Byte") => MatchesGeneric

Float32MatchesGeneric ==
    KernelCalled2D("LinearResampler_Float32") => MatchesGeneric

\* C21: the byte-optimized and the float32-optimized bilinear kernel each
\* produce, for every destination pixel of a 2D buffer, the value the generic
\* unpack-blend-pack bilinear path produces for the same source, destination
\* size and formats.
C21_FastPathsMatchGeneric == ByteMatchesGeneric /\ Float32MatchesGeneric

\* the float32 kernel ran with a 3-channel format on either side
Float32RgbCalled ==
    /\ scaleStatus = "ok"
    /\ StepsOf(scaleLog, "LinearResampler_Float32") # {}
    /\ PF_FLOAT32_RGB \in {scaleSrc.format, scaled.format}

\* every pixel of scaled's region has alpha 1.0
AlphaIsOne ==
    \A x \in 0..(getWidth(scaled) - 1), y \in 0..(getHeight(scaled) - 1),
       z \in 0..(getDepth(scaled) - 1) :
        PixelCells(scaled, scaledMem, x, y, z)[4] = FOne

\* scaled's buffer is as long as it was, and as it was beyond the pixels of
\* the region
NothingPastPixels ==
    /\ Len(scaledMem) = BufferCells(scaled)
    /\ \A i \in 1..Len(scaledMem) :
           ~InRegion(scaled, i) => scaledMem[i] = DstCell(scaled.format, i)

\* C24: in the float32 bilinear kernel, whenever the source or the
\* destination format has 3 channels, every RGBA destination pixel receives
\* alpha exactly 1.0 and an RGB destination pixel receives exactly 3 floats
\* (no write past the pixel), for any source content.
C24_ThreeChannelAlpha ==
    Float32RgbCalled =>
        /\ scaled.format = PF_FLOAT32_RGBA => AlphaIsOne
        /\ scaled.format = PF_FLOAT32_RGB =>
               CellsPerPixel(scaled.format) = 3 /\ NothingPastPixels

\* a 3-channel source was shrunk along both axes into a 4-channel
\* destination
C24_Witness ==
    /\ Float32RgbCalled
    /\ scaleSrc.format = PF_FLOAT32_RGB /\ scaled.format = PF_FLOAT32_RGBA
    /\ getWidth(scaled) = MaxScaleLength - 1
    /\ getHeight(scaled) = MaxScaleLength - 1
    /\ scaledMem[4] = FOne /\ scaledMem[4] # DstCell(scaled.format, 4)

\* a 4-channel source was scaled into a 3-channel destination whose buffer
\* is padded
C24_RgbWitness ==
    /\ Float32RgbCalled
    /\ scaleSrc.format = PF_FLOAT32_RGBA /\ scaled.format = PF_FLOAT32_RGB
    /\ getWidth(scaled) = MaxScaleLength
    /\ getSliceSkip(scaled) > 0

\* the element sizes NearestResampler and LinearResampler_Byte are
\* instantiated for
NearestSizes == {1, 2, 3, 4, 6, 8, 12, 16}

ByteLinearSizes == {1, 2, 3, 4}

\* both accessibility assertions of the call passed
AssertionsPassed ==
    ScaleReturned /\ isAccessible(scaleSrc.format) /\ isAccessible(scaled.format)

\* C25: for every format for which isAccessible is true the element size in
\* bytes is one of 1,2,3,4,6,8,12,16, and for every format routed to the byte
\* bilinear kernel it is one of 1,2,3,4; hence the assert(false) defaults of
\* both element-size dispatches in scale are not reached once the
\* accessibility assertions pass.
C25_DispatchDefaultsUnreachable ==
    /\ \A fmt \in PixelFormat :
           isAccessible(fmt) => getNumElemBytes(fmt) \in NearestSizes
    /\ \A fmt \in ByteLinearFormats : getNumElemBytes(fmt) \in ByteLinearSizes
    /\ AssertionsPassed => scaleStatus # "assert"

\* the nearest dispatch chose the kernel of the largest element size
C25_Witness ==
    /\ AssertionsPassed /\ scaleStatus = "ok" /\ filter = "FILTER_NEAREST"
    /\ getNumElemBytes(scaleSrc.format) = 16
    /\ StepsOf(scaleLog, "NearestResampler") # {}

\* the byte dispatch chose the kernel of the largest element size
C25_ByteWitness ==
    /\ AssertionsPassed /\ scaleStatus = "ok" /\ filter = "FILTER_BILINEAR"
    /\ getNumElemBytes(scaleSrc.format) = 4
    /\ StepsOf(scaleLog, "LinearResampler_Byte") # {}

(***************************************************************************)
(* Claims about the byte kernel's blend                                    *)
(***************************************************************************)
BlendStored == blendPc = "stored"

\* 2^bits
BPow2(bits) == BShl(BOne, bits)

\* the weighted sum of the four samples, no bit dropped
ExactSum(s, w) ==
    BAdd(BAdd(BMulNat(BFromNat(w[1]), s[1]), BMulNat(BFromNat(w[2]), s[2])),
         BAdd(BMulNat(BFromNat(w[3]), s[3]), BMulNat(BFromNat(w[4]), s[4])))

\* the four factors are non-negative and add up to 2^24
FactorsSumTo24(w) ==
    /\ \A j \in 1..4 : w[j] >= 0
    /\ w[1] + w[2] + w[3] + w[4] = 2^24

\* byte is sum / 2^24 rounded to nearest: they differ by at most a half
NearestByte(byte, sum) ==
    /\ BLeq(sum, BAdd(BShl(BFromNat(byte), 24), BPow2(23)))
    /\ BLeq(BShl(BFromNat(byte), 24), BAdd(sum, BPow2(23)))

\* byte lies between the least and the greatest of the samples
WithinSamples(byte, s) ==
    /\ \E j \in 1..4 : s[j] <= byte
    /\ \E j \in 1..4 : byte <= s[j]

\* C22: in the byte bilinear kernel, for the 12-bit weights wx and wy the
\* four sample weights are non-negative and sum to exactly 2^24, the 32-bit
\* accumulator plus the rounding constant 0x800000 never exceeds 2^32 - 1 for
\* any byte samples, and the output byte is the weighted sum divided by 2^24
\* rounded to nearest, lying between the minimum and maximum of the samples.
C22_ByteBlend ==
    BlendStored =>
        \E w \in {byteWeights(sampleWeightX, sampleWeightY)} :
            \E sum \in {ExactSum(samples, w)} :
                /\ FactorsSumTo24(w)
                /\ BLess(BAdd(sum, BPow2(23)), BPow2(32))
                /\ NearestByte(destByte, sum)
                /\ WithinSamples(destByte, samples)

\* both weights at their greatest, the samples from 0 to 255, the sum a
\* half away from the byte stored
C22_Witness ==
    /\ BlendStored
    /\ sampleWeightX = 4095 /\ sampleWeightY = 4095
    /\ samples = <<255, 0, 0, 128>>
    /\ destByte = 128

C22_TieWitness ==
    /\ BlendStored
    /\ sampleWeightX = 2048 /\ sampleWeightY = 0
    /\ samples = <<0, 1, 255, 255>>
    /\ destByte = 1

====
